---- MODULE Spec2Model ----
(***************************************************************************)
(* Honda generator BLE integration: the Poll protocol's diagnostic RPC     *)
(* (checksummed commands, response correlation, bounded retries), the      *)
(* connection lifecycle of both protocol clients, the Push protocol's CAN  *)
(* decoder and stream guard, and the supervisor: its handling of protocol  *)
(* client instances, its startup grace period, its runtime-hours store and *)
(* its service tracking.                                                   *)
(*                                                                         *)
(* Python byte strings are sequences of integers 0..255; B(data, i) is the *)
(* source's data[i] (0-based).  Characters are their ASCII codes.          *)
(***************************************************************************)
EXTENDS Integers, Sequences, FiniteSets, TLC

VARIABLES
    \* ---- checksum round trip (PollAPI._create_command/_verify_checksum)
    ckCmd,          \* the command bytes under test
    ckIdx,          \* index of the byte that was corrupted, -1 if none
    \* ---- PollAPI._read_diagnostic
    rdQueue,        \* PollAPI._queue: notifications not yet consumed
    rdPc,           \* position of the _read_diagnostic coroutine
    rdReq,          \* <<register, position>> of the call
    rdAttempt,      \* loop variable attempt
    rdRespAttempt,  \* loop variable response_attempt
    rdWrites,       \* write_gatt_char calls issued by the call
    rdConsumed,     \* responses consumed since the last write
    rdSkipped,      \* verified responses for another address discarded since the last write
    rdLast,         \* the response consumed last (<<>> if none)
    rdOutcome,      \* how the call ended
    rdResult,       \* the bytes returned
    rdShut,         \* PollAPI._shutting_down as seen by the read
    rdLink,         \* TRUE while connected and _client.is_connected hold
    rdDisc,         \* where disconnect() is: "none" before the call
    \* ---- PushAPI CAN decoder
    canState,       \* PushAPI._state
    canPrev,        \* _state before the last notification
    canData,        \* the last notification handled (<<0>> before the first)
    canHasCb,       \* PushAPI._on_data_update is not None
    canCalls,       \* the snapshots _on_data_update was called with
    \* ---- one protocol-client instance (PollAPI or PushAPI) and its callers
    arch,           \* "poll" or "push": the class of the instance
    client,         \* _client: "none", or a handle whose is_connected is "up"/"down"
    connected,      \* _connected
    shutting_down,  \* _shutting_down
    stream_active,  \* PushAPI._stream_active
    lock,           \* holder of _lock: "free", "connect" or "disconnect"
    cpc,            \* position of the connect() coroutine
    cret,           \* how connect() ended: "true", "false" or the exception raised
    cOps,           \* transport operations called by the current connect()
    cReuse,         \* connect() found a handle that reports connected
    cCancelAt,      \* where connect() was suspended when the flag was set
    cAuth,          \* how the authentication write of this connect() ended
    cProfile,       \* what the control-sequence read of this connect() found
    serialKind,     \* what the serial read gave: "known", "unknown", "empty"
    cg,             \* the stream guard around connect()'s serial read
    nConnect,       \* connect() calls so far
    dpc,            \* position of the disconnect() coroutine
    dOps,           \* transport operations called by the current disconnect()
    dFound,         \* what disconnect() found under the lock
    nDisconnect,    \* disconnect() calls so far
    epc,            \* position of PushAPI.engine_stop()
    eret,           \* how engine_stop() ended
    eg,             \* the stream guard around engine_stop()'s command
    nEngineStop,    \* engine_stop() calls so far
    \* ---- the supervisor (HondaGeneratorCoordinator) and its instances
    sInst,          \* every protocol-client instance created so far
    api,            \* coordinator.api: 0 for None, else the instance's index
    consecutive_failures,
    reconnect_after_failures,
    has_connected_once,
    last_ok,        \* _last_successful_data is not None
    sResult,        \* how the last async_update_data ended
    sDevices,       \* how its get_devices call ended, "none" without a call
    sElapsed,       \* time.monotonic() - _startup_time
    startup_grace_period,
    grace_period_logged_expired,
    nGraceNotified, \* async_update_listeners() calls of the grace-expiry block
    sLate,          \* the last refresh ran with the grace period elapsed
    \* ---- the supervisor's runtime-hours store and service records
    rtNow,          \* the wall clock, in hours
    rtStored,       \* _stored_runtime_hours
    rtStamp,        \* _stored_runtime_hours_timestamp
    rtHistory,      \* _runtime_history
    rtCand,         \* value given to the last _async_save_runtime_hours
    rtAt,           \* the clock at that call
    rtPrev,         \* stored value, timestamp and history before that call
    rtSaved,        \* storage saves the last save or mark-complete call made
    rtTasks,        \* scheduled save tasks that have not started
    rtInit,         \* a save suspended before _async_initialize_service_records
    rtReadings,     \* a device list given to _apply_runtime_hours_bounds
    rtDevices,      \* the coordinator's device list (data.devices)
    rtRate,         \* what the last get_hours_per_day call returned
    svRecords,      \* _service_records
    svDue,          \* _service_due_dates
    svCall,         \* the last get_estimated_service_date call
    svMarked,       \* services async_mark_service_complete was called for
    rtPush,         \* PushAPI._state["runtime_hours"] and the first decoded value
    \* ---- the reconnect grace window and the sensors that read it
    gNow,           \* the monotonic clock
    gPeriod,        \* the configured reconnect grace period
    gOnce,          \* has_connected_once
    gOk,            \* last_update_success
    gStart,         \* when the reconnect grace window started, or None
    gIntent,        \* the intentional-disconnect flag
    gApi,           \* coordinator.api is not None
    \* ---- PollAPI.get_devices and the coordinator's category selection
    gdImage,        \* the two bytes the generator answers with (high, low)
    gdFuel,         \* model_spec.fuel_sensor of the connected model
    gdWarn,         \* PollAPI._warnings_raw
    gdFault,        \* PollAPI._faults_raw
    gdEngine,       \* cached engine drive status
    gdShut,         \* PollAPI._shutting_down
    gdConn,         \* PollAPI.connected
    gdEntries,      \* entity registry entries of the config entry
    gdEnabled,      \* enabled_categories passed to get_devices
    gdWrites,       \* diagnostic commands written by the call
    gdRet,          \* how the call ended
    gdDevices,      \* state of each returned device
    gdCaller,       \* who called get_devices
    gdStatus,       \* what became of the engine drive status read
    \* ---- PollAPI.engine_stop(max_attempts)
    esClient,       \* _client: "up", "down" (is_connected false) or "none"
    esConnected,    \* PollAPI.connected
    esEntry,        \* _client as engine_stop found it at entry
    esMax,          \* max_attempts of the call
    esPc,           \* where engine_stop is: "idle", "write", "sleep", "done"
    esAttempts,     \* attempts
    esWrites,       \* write_gatt_char calls the call has made
    esFailed,       \* the outcome of a write that raised, else "none"
    esRet           \* what engine_stop returned

ckVars == <<ckCmd, ckIdx>>
rdVars == <<rdQueue, rdPc, rdReq, rdAttempt, rdRespAttempt, rdWrites,
            rdConsumed, rdSkipped, rdLast, rdOutcome, rdResult, rdShut, rdLink,
            rdDisc>>
canVars == <<canState, canPrev, canData, canHasCb, canCalls>>
lifeVars == <<arch, client, connected, shutting_down, stream_active, lock,
              cpc, cret, cOps, cReuse, cCancelAt, cAuth, cProfile, serialKind, cg,
              nConnect,
              dpc, dOps, dFound, nDisconnect, epc, eret, eg, nEngineStop>>
supVars == <<sInst, api, consecutive_failures, reconnect_after_failures,
             has_connected_once, last_ok, sResult, sDevices, sElapsed,
             startup_grace_period, grace_period_logged_expired,
             nGraceNotified, sLate>>
mtVars == <<rtNow, rtStored, rtStamp, rtHistory, rtCand, rtAt, rtPrev, rtSaved,
            rtTasks, rtInit, rtReadings, rtDevices, rtRate, svRecords, svDue,
            svCall, svMarked, rtPush>>
rgVars == <<gNow, gPeriod, gOnce, gOk, gStart, gIntent, gApi>>
gdVars == <<gdImage, gdFuel, gdWarn, gdFault, gdEngine, gdShut, gdConn,
           gdEntries, gdEnabled, gdWrites, gdRet, gdDevices, gdCaller,
           gdStatus>>
esVars == <<esClient, esConnected, esEntry, esMax, esPc, esAttempts, esWrites, esFailed, esRet>>
vars == <<ckVars, rdVars, canVars, lifeVars, supVars, mtVars, rgVars, gdVars, esVars>>

\* everything but one component
notCk == <<rdVars, canVars, lifeVars, supVars, mtVars, rgVars, gdVars, esVars>>
notRd == <<ckVars, canVars, lifeVars, supVars, mtVars, rgVars, gdVars, esVars>>
notCan == <<ckVars, rdVars, lifeVars, supVars, mtVars, rgVars, gdVars, esVars>>
notLife == <<ckVars, rdVars, canVars, supVars, mtVars, rgVars, gdVars, esVars>>
notSup == <<ckVars, rdVars, canVars, lifeVars, mtVars, rgVars, gdVars, esVars>>
notMt == <<ckVars, rdVars, canVars, lifeVars, supVars, rgVars, gdVars, esVars>>
notRg == <<ckVars, rdVars, canVars, lifeVars, supVars, mtVars, gdVars, esVars>>
notGd == <<ckVars, rdVars, canVars, lifeVars, supVars, mtVars, rgVars, esVars>>
notEs == <<ckVars, rdVars, canVars, lifeVars, supVars, mtVars, rgVars, gdVars>>

(***************************************************************************)
(* Bytes                                                                   *)
(***************************************************************************)
Byte == 0..255

B(data, i) == data[i + 1]

RECURSIVE Xor(_, _)
Xor(a, b) ==
    IF a = 0 THEN b
    ELSE IF b = 0 THEN a
    ELSE (((a % 2) + (b % 2)) % 2) + (2 * Xor(a \div 2, b \div 2))

\* ord(format(n, "X")) for one nibble n
HexChar(n) == IF n < 10 THEN 48 + n ELSE 55 + n

\* the value of one character of bytes.fromhex; -1 where fromhex raises
HexVal(c) ==
    IF c \in 48..57 THEN c - 48
    ELSE IF c \in 65..70 THEN c - 55
    ELSE IF c \in 97..102 THEN c - 87
    ELSE -1

\* XOR of data[1] .. data[6]
XorBytes1to6(data) ==
    Xor(Xor(Xor(Xor(Xor(B(data, 1), B(data, 2)), B(data, 3)), B(data, 4)),
            B(data, 5)), B(data, 6))

(***************************************************************************)
(* PollAPI._create_command and PollAPI._verify_checksum                    *)
(***************************************************************************)
CreateCommand(register, position) ==
    LET body == <<1, 66, register, position[1], position[2], 48, 48>>
        cksum == XorBytes1to6(body)
    IN  body \o <<HexChar(cksum \div 16), HexChar(cksum % 16), 4>>

VerifyChecksumHighOnly(data) ==
    B(data, 7) = HexChar(XorBytes1to6(data) \div 16)

VerifyChecksum(data) ==
    LET cksum == XorBytes1to6(data)
    IN  /\ B(data, 7) = HexChar(cksum \div 16)
        /\ B(data, 8) = HexChar(cksum % 16)

\* Register letters and two-character positions used by the program
Registers == {66, 67, 68}                       \* "B", "C", "D"
Positions == {<<48, 48>>, <<48, 49>>, <<49, 48>>, <<49, 49>>,
              <<49, 57>>, <<52, 50>>}           \* "00" "01" "10" "11" "19" "42"

CkIdle == ckCmd = <<>> /\ ckIdx = -1

CkInit ==
    /\ \E r \in Registers, p \in Positions : ckCmd = CreateCommand(r, p)
    /\ ckIdx = -1

\* one byte among bytes 1..6 of the built command is changed to another value
CkCorrupt ==
    /\ ckIdx = -1
    /\ \E i \in 1..6, v \in Byte :
          /\ v # B(ckCmd, i)
          /\ ckCmd' = [ckCmd EXCEPT ![i + 1] = v]
          /\ ckIdx' = i
    /\ UNCHANGED notCk

(***************************************************************************)
(* PollAPI._read_diagnostic                                                *)
(***************************************************************************)
MaxQueue == 2       \* notifications that may wait in the queue at once

\* raw[1:]
DataOf(raw) == Tail(raw)

RespRegister(data) == B(data, 2)
RespPosition(data) == <<B(data, 3), B(data, 4)>>

\* resp_register != register or resp_position != position  (negated)
MatchesRegisterOnly(data, req) == RespRegister(data) = req[1]

Matches(data, req) ==
    /\ RespRegister(data) = req[1]
    /\ RespPosition(data) = req[2]

\* bytes.fromhex(data[5:7].decode()); <<>> stands for the ValueError
DecodeValue(data) ==
    IF HexVal(B(data, 5)) < 0 \/ HexVal(B(data, 6)) < 0 THEN <<>>
    ELSE <<16 * HexVal(B(data, 5)) + HexVal(B(data, 6))>>

\* for attempt in range(3): the loop is over
ExhaustedAfterFour(attempt) == attempt >= 4

Exhausted(attempt) == attempt >= 3

\* for response_attempt in range(3): the inner loop is over
InnerExhausted(response_attempt) == response_attempt >= 3

\* The generator's answer to a command: one skipped byte, then the echoed
\* header and address, two hex characters of value, the checksum and 0x04.
DeviceValue(reg, pos) == <<HexChar(reg - 60), HexChar(pos[2] - 38)>>

BuildResponseWith(reg, pos, val) ==
    LET body == <<1, 66, reg, pos[1], pos[2], val[1], val[2]>>
        cksum == XorBytes1to6(body)
    IN  <<0>> \o body \o <<HexChar(cksum \div 16), HexChar(cksum % 16), 4>>

BuildResponse(reg, pos) == BuildResponseWith(reg, pos, DeviceValue(reg, pos))

\* the same notification with a value character damaged in transit
Damaged(raw) == [raw EXCEPT ![7] = 88]

ReadRequests == {<<66, <<48, 48>>>>, <<66, <<48, 49>>>>}      \* B00, B01
RespAddrs == ReadRequests \cup {<<67, <<48, 49>>>>}          \* and C01

\* what the transport may deliver: the answers to B00, B01 and C01, damaged
\* answers, and a well-formed answer to B00 whose value is not hexadecimal
Notifications ==
    {BuildResponse(a[1], a[2]) : a \in RespAddrs}
        \cup {Damaged(BuildResponse(a[1], a[2])) : a \in ReadRequests}
        \cup {BuildResponseWith(66, <<48, 48>>, <<88, 88>>)}

RdIdle ==
    /\ rdQueue = <<>> /\ rdPc = "idle" /\ rdReq = <<>>
    /\ rdAttempt = 0 /\ rdRespAttempt = 0 /\ rdWrites = 0 /\ rdConsumed = 0
    /\ rdSkipped = 0 /\ rdLast = <<>> /\ rdOutcome = "none" /\ rdResult = <<>>
    /\ rdShut = FALSE /\ rdLink = FALSE /\ rdDisc = "none"

\* a connected session: connect() returned true, notifications subscribed
RdInit ==
    /\ rdQueue = <<>> /\ rdPc = "idle" /\ rdReq = <<>>
    /\ rdAttempt = 0 /\ rdRespAttempt = 0 /\ rdWrites = 0 /\ rdConsumed = 0
    /\ rdSkipped = 0 /\ rdLast = <<>> /\ rdOutcome = "none" /\ rdResult = <<>>
    /\ rdShut = FALSE /\ rdLink = TRUE /\ rdDisc = "none"

RdReturn(outcome, result) ==
    /\ rdPc' = "done"
    /\ rdOutcome' = outcome
    /\ rdResult' = result

\* entry of _read_diagnostic(register, position), up to the for loop
RdCall ==
    /\ rdPc \in {"idle", "done"}
    /\ \E req \in ReadRequests : rdReq' = req
    /\ rdAttempt' = 0 /\ rdRespAttempt' = 0 /\ rdWrites' = 0
    /\ rdConsumed' = 0 /\ rdSkipped' = 0 /\ rdLast' = <<>>
    /\ IF rdShut THEN RdReturn("noop", <<0>>)
       ELSE IF ~rdLink THEN RdReturn("not_connected", <<>>)
       ELSE rdPc' = "loop" /\ rdOutcome' = "none" /\ rdResult' = <<>>
    /\ UNCHANGED <<rdQueue, rdShut, rdLink, rdDisc>>
    /\ UNCHANGED notRd

\* top of one outer attempt: the checks, the drain of stale notifications and
\* the call of write_gatt_char, up to its await
RdAttemptStart ==
    /\ rdPc = "loop"
    /\ IF Exhausted(rdAttempt)
         THEN RdReturn("read_error", <<>>)
              /\ UNCHANGED <<rdQueue, rdWrites, rdConsumed, rdSkipped>>
       ELSE IF rdShut
         THEN RdReturn("noop", <<0>>)
              /\ UNCHANGED <<rdQueue, rdWrites, rdConsumed, rdSkipped>>
       ELSE IF ~rdLink
         THEN RdReturn("connection_lost", <<>>)
              /\ UNCHANGED <<rdQueue, rdWrites, rdConsumed, rdSkipped>>
       ELSE /\ rdQueue' = <<>>
            /\ rdWrites' = rdWrites + 1
            /\ rdConsumed' = 0 /\ rdSkipped' = 0
            /\ rdPc' = "write"
            /\ UNCHANGED <<rdOutcome, rdResult>>
    /\ UNCHANGED <<rdReq, rdAttempt, rdRespAttempt, rdLast, rdShut, rdLink, rdDisc>>
    /\ UNCHANGED notRd

\* the write completed; sleep 0.1 s and start waiting for responses
RdWriteOk ==
    /\ rdPc = "write"
    /\ rdLink
    /\ rdPc' = "wait"
    /\ rdRespAttempt' = 0
    /\ UNCHANGED <<rdQueue, rdReq, rdAttempt, rdWrites, rdConsumed, rdSkipped,
                   rdLast, rdOutcome, rdResult, rdShut, rdLink, rdDisc>>
    /\ UNCHANGED notRd

\* the write raised or timed out
RdWriteFail ==
    /\ rdPc = "write"
    /\ IF rdShut
         THEN RdReturn("noop", <<0>>) /\ UNCHANGED rdAttempt
         ELSE /\ rdAttempt' = rdAttempt + 1
              /\ rdPc' = "loop"
              /\ UNCHANGED <<rdOutcome, rdResult>>
    /\ UNCHANGED <<rdQueue, rdReq, rdRespAttempt, rdWrites, rdConsumed,
                   rdSkipped, rdLast, rdShut, rdLink, rdDisc>>
    /\ UNCHANGED notRd

\* after a response that was not accepted: next response_attempt, or the
\* next outer attempt when the inner loop is over
RdNextResponse ==
    IF InnerExhausted(rdRespAttempt + 1)
      THEN rdAttempt' = rdAttempt + 1 /\ rdPc' = "loop"
           /\ rdRespAttempt' = rdRespAttempt + 1
      ELSE rdRespAttempt' = rdRespAttempt + 1 /\ rdPc' = "wait"
           /\ UNCHANGED rdAttempt

\* queue.get() returned a notification
RdResponse ==
    /\ rdPc = "wait"
    /\ rdQueue # <<>>
    /\ LET raw == Head(rdQueue)
           data == DataOf(raw)
       IN  /\ rdQueue' = Tail(rdQueue)
           /\ rdLast' = raw
           /\ rdConsumed' = rdConsumed + 1
           /\ IF VerifyChecksum(data)
                THEN IF ~Matches(data, rdReq)
                       THEN /\ RdNextResponse
                            /\ rdSkipped' = rdSkipped + 1
                            /\ UNCHANGED <<rdOutcome, rdResult>>
                     ELSE IF DecodeValue(data) = <<>>
                       THEN /\ RdReturn("value_error", <<>>)
                            /\ UNCHANGED <<rdAttempt, rdRespAttempt, rdSkipped>>
                     ELSE /\ RdReturn("value", DecodeValue(data))
                          /\ UNCHANGED <<rdAttempt, rdRespAttempt, rdSkipped>>
              ELSE /\ RdNextResponse
                   /\ UNCHANGED <<rdSkipped, rdOutcome, rdResult>>
    /\ UNCHANGED <<rdReq, rdWrites, rdShut, rdLink, rdDisc>>
    /\ UNCHANGED notRd

\* queue.get() timed out (2 s for the first response, 0.5 s afterwards)
RdTimeout ==
    /\ rdPc = "wait"
    /\ rdQueue = <<>>
    /\ rdAttempt' = rdAttempt + 1
    /\ rdPc' = "loop"
    /\ UNCHANGED <<rdQueue, rdReq, rdRespAttempt, rdWrites, rdConsumed,
                   rdSkipped, rdLast, rdOutcome, rdResult, rdShut, rdLink, rdDisc>>
    /\ UNCHANGED notRd

\* PollAPI._notification_handler: the transport delivers a notification
RdNotify ==
    /\ rdLink
    /\ rdDisc \in {"none", "stop_diag"}
    /\ Len(rdQueue) < MaxQueue
    /\ \E raw \in Notifications : rdQueue' = Append(rdQueue, raw)
    /\ UNCHANGED <<rdPc, rdReq, rdAttempt, rdRespAttempt, rdWrites, rdConsumed,
                   rdSkipped, rdLast, rdOutcome, rdResult, rdShut, rdLink, rdDisc>>
    /\ UNCHANGED notRd

\* disconnect() up to its first await: it sets _shutting_down and takes the
\* lock, which no diagnostic read holds; with the link up it calls
\* stop_notify for the diagnostic responses, otherwise it drops the client
RdShutdown ==
    /\ ~rdShut
    /\ rdShut' = TRUE
    /\ rdDisc' = IF rdLink THEN "stop_diag" ELSE "released"
    /\ UNCHANGED <<rdQueue, rdPc, rdReq, rdAttempt, rdRespAttempt, rdWrites,
                   rdConsumed, rdSkipped, rdLast, rdOutcome, rdResult, rdLink>>
    /\ UNCHANGED notRd

\* disconnect(): an await returned or raised (every failure is logged and
\* passed over); after client.disconnect() the client is dropped
RdDisconnectStep ==
    /\ rdDisc \in {"stop_diag", "stop_engine", "sleep", "disconnect"}
    /\ rdDisc' = CASE rdDisc = "stop_diag" -> "stop_engine"
                   [] rdDisc = "stop_engine" -> "sleep"
                   [] rdDisc = "sleep" -> "disconnect"
                   [] rdDisc = "disconnect" -> "released"
    /\ rdLink' = IF rdDisc = "disconnect" THEN FALSE ELSE rdLink
    /\ UNCHANGED <<rdQueue, rdPc, rdReq, rdAttempt, rdRespAttempt, rdWrites,
                   rdConsumed, rdSkipped, rdLast, rdOutcome, rdResult, rdShut>>
    /\ UNCHANGED notRd

\* PollAPI._on_disconnect: the link drops
RdLinkDrop ==
    /\ rdLink
    /\ rdLink' = FALSE
    /\ UNCHANGED <<rdQueue, rdPc, rdReq, rdAttempt, rdRespAttempt, rdWrites,
                   rdConsumed, rdSkipped, rdLast, rdOutcome, rdResult, rdShut, rdDisc>>
    /\ UNCHANGED notRd

(***************************************************************************)
(* PushAPI: the CAN stream decoder                                         *)
(***************************************************************************)
CAN_ECU_STATUS == 786           \* 0x312
CAN_INV_INFO == 818             \* 0x332
CAN_INV_INFO2 == 850            \* 0x352
CAN_ECU_INFO_ETC == 866         \* 0x362
CAN_OUTPUT_SETTING == 1490      \* 0x5D2
CAN_ECU_ERROR == 930            \* 0x3A2
CAN_INV_ERROR == 946            \* 0x3B2
CAN_BT_ERROR == 933             \* 0x3A5

MaxPayload == 6     \* longest CAN payload delivered

\* VOLTAGE_SETTINGS.get(setting, 0)
VoltageSetting(setting) ==
    CASE setting = 1 -> 100
      [] setting = 2 -> 110
      [] setting = 3 -> 115
      [] setting = 4 -> 120
      [] setting = 5 -> 220
      [] setting = 6 -> 230
      [] setting = 7 -> 240
      [] OTHER -> 0

\* PushAPI.__init__: self._state
\* (current is kept as the raw count; the program stores raw / 500.0)
CanInitState ==
    [engine_mode |-> 0, eco_status |-> FALSE, power_watts |-> 0,
     voltage |-> 0, current |-> 0, runtime_hours |-> 0, fuel_ml |-> 0,
     fuel_remaining_min |-> 0, fuel_level_discrete |-> 0,
     voltage_setting |-> 0, ecu_errors |-> <<>>, inv_errors |-> <<>>,
     bt_errors |-> <<>>]

CanFields == DOMAIN CanInitState

\* payload[i]; -1 stands for the IndexError of an index outside the payload
PayloadByte(payload, i) == IF i < Len(payload) THEN payload[i + 1] ELSE -1

\* struct.unpack("<H", payload[a:a+2])[0]; -1 stands for the struct.error of
\* a slice shorter than two bytes
U16LE(payload, a) ==
    IF a + 2 <= Len(payload) THEN payload[a + 1] + 256 * payload[a + 2] ELSE -1

Bit(byte, k) == (byte \div (2 ^ k)) % 2

\* the set bits of one byte as error indices, lowest bit first
RECURSIVE ByteErrors(_, _, _)
ByteErrors(byte_idx, byte_val, bit_idx) ==
    IF bit_idx >= 8 THEN <<>>
    ELSE (IF Bit(byte_val, bit_idx) = 1 THEN <<byte_idx * 8 + bit_idx>>
          ELSE <<>>) \o ByteErrors(byte_idx, byte_val, bit_idx + 1)

\* PushAPI._parse_error_bytes, from byte byte_idx on
RECURSIVE ParseErrorBytesFrom(_, _)
ParseErrorBytesFrom(payload, byte_idx) ==
    IF byte_idx >= Len(payload) THEN <<>>
    ELSE ByteErrors(byte_idx, payload[byte_idx + 1], 0)
            \o ParseErrorBytesFrom(payload, byte_idx + 1)

ParseErrorBytes(payload) == ParseErrorBytesFrom(payload, 0)

\* the CAN_INV_INFO branch with the guard of current one pair too short
DecodeInvInfoShortGuard(st, payload) ==
    LET s1 == IF Len(payload) >= 2
              THEN [st EXCEPT !.power_watts = U16LE(payload, 0)]
              ELSE st
        s2 == IF Len(payload) >= 4
              THEN [s1 EXCEPT !.voltage = U16LE(payload, 2)]
              ELSE s1
        s3 == IF Len(payload) >= 4
              THEN [s2 EXCEPT !.current = U16LE(payload, 4)]
              ELSE s2
    IN  s3

\* the CAN_INV_INFO branch of _parse_can_message
DecodeInvInfo(st, payload) ==
    LET s1 == IF Len(payload) >= 2
              THEN [st EXCEPT !.power_watts = U16LE(payload, 0)]
              ELSE st
        s2 == IF Len(payload) >= 4
              THEN [s1 EXCEPT !.voltage = U16LE(payload, 2)]
              ELSE s1
        s3 == IF Len(payload) >= 6
              THEN [s2 EXCEPT !.current = U16LE(payload, 4)]
              ELSE s2
    IN  s3

\* PushAPI._parse_can_message: the state after the message
ParseCanMessage(st, can_id, payload) ==
    IF Len(payload) < 2 THEN st
    ELSE IF can_id = CAN_ECU_STATUS THEN
        LET s1 == IF Len(payload) >= 1
                  THEN [st EXCEPT !.engine_mode = PayloadByte(payload, 0)]
                  ELSE st
            s2 == IF Len(payload) >= 3
                  THEN [s1 EXCEPT !.eco_status = PayloadByte(payload, 2) \in {0, 2}]
                  ELSE s1
        IN  s2
    ELSE IF can_id = CAN_INV_INFO THEN DecodeInvInfo(st, payload)
    ELSE IF can_id = CAN_INV_INFO2 THEN
        IF Len(payload) >= 6
        THEN [st EXCEPT !.runtime_hours = U16LE(payload, 4)]
        ELSE st
    ELSE IF can_id = CAN_ECU_INFO_ETC THEN
        LET s1 == IF Len(payload) >= 2
                  THEN [st EXCEPT !.fuel_ml = U16LE(payload, 0)]
                  ELSE st
            s2 == IF Len(payload) >= 4
                  THEN [s1 EXCEPT !.fuel_remaining_min = U16LE(payload, 2)]
                  ELSE s1
            s3 == IF Len(payload) >= 6
                  THEN [s2 EXCEPT !.fuel_level_discrete = PayloadByte(payload, 5)]
                  ELSE s2
        IN  s3
    ELSE IF can_id = CAN_OUTPUT_SETTING THEN
        IF Len(payload) >= 1
        THEN [st EXCEPT !.voltage_setting = VoltageSetting(PayloadByte(payload, 0))]
        ELSE st
    ELSE IF can_id = CAN_ECU_ERROR THEN
        [st EXCEPT !.ecu_errors = ParseErrorBytes(payload)]
    ELSE IF can_id = CAN_INV_ERROR THEN
        [st EXCEPT !.inv_errors = ParseErrorBytes(payload)]
    ELSE IF can_id = CAN_BT_ERROR THEN
        [st EXCEPT !.bt_errors = ParseErrorBytes(payload)]
    ELSE st

\* struct.unpack("<H", data[1:3])[0] and data[3:]
CanIdOf(data) == data[2] + 256 * data[3]
PayloadOf(data) == SubSeq(data, 4, Len(data))

\* a notification is decoded: at least 3 bytes and packet type 1
Decoded(data) == Len(data) >= 3 /\ data[1] = 1

\* PushAPI._handle_can_data: the state after the notification
HandleCanData(st, data) ==
    IF Len(data) < 3 THEN st
    ELSE IF data[1] # 1 THEN st
    ELSE ParseCanMessage(st, CanIdOf(data), PayloadOf(data))

\* the owner is called for every notification, decoded or not
NotifyOwnerAlways(st, data, has_cb) == IF has_cb THEN <<st>> ELSE <<>>

\* PushAPI._handle_can_data: the calls of _on_data_update it makes, st being
\* the state after _parse_can_message
NotifyOwner(st, data, has_cb) ==
    IF Len(data) < 3 THEN <<>>
    ELSE IF data[1] # 1 THEN <<>>
    ELSE IF has_cb THEN <<st>>
    ELSE <<>>

\* an exception left the handler: a decode read outside the payload
CanRaised(st) ==
    \E f \in {"engine_mode", "power_watts", "voltage", "current",
              "runtime_hours", "fuel_ml", "fuel_remaining_min",
              "fuel_level_discrete"} : st[f] = -1

CanIds == {CAN_ECU_STATUS, CAN_INV_INFO, CAN_INV_INFO2, CAN_ECU_INFO_ETC,
           CAN_OUTPUT_SETTING, CAN_ECU_ERROR, CAN_INV_ERROR, CAN_BT_ERROR}
UnknownCanId == {291}
CanBytes == {0, 2, 255}

RECURSIVE SeqsOfLen(_, _)
SeqsOfLen(S, n) ==
    IF n = 0 THEN {<<>>}
    ELSE {Append(q, x) : q \in SeqsOfLen(S, n - 1), x \in S}

Payloads == UNION {SeqsOfLen(CanBytes, n) : n \in 0..MaxPayload}

CanFrame(ptype, id, payload) == <<ptype, id % 256, id \div 256>> \o payload

\* what the transport may deliver on the CAN data characteristic
CanNotifications ==
    {CanFrame(1, id, pl) : id \in CanIds \cup UnknownCanId, pl \in Payloads}
        \cup {CanFrame(2, id, <<255, 255, 255>>) : id \in CanIds}
        \cup {<<>>, <<1>>, <<1, 18>>}

\* a state in which every field differs from its initial value: the state
\* after one full frame of every CAN ID
RECURSIVE HandleAll(_, _)
HandleAll(st, frames) ==
    IF frames = <<>> THEN st
    ELSE HandleAll(HandleCanData(st, Head(frames)), Tail(frames))

WarmFrames ==
    <<CanFrame(1, CAN_ECU_STATUS, <<3, 1, 1>>),
      CanFrame(1, CAN_INV_INFO, <<232, 3, 120, 0, 69, 16>>),
      CanFrame(1, CAN_INV_INFO2, <<0, 0, 0, 0, 244, 1>>),
      CanFrame(1, CAN_ECU_INFO_ETC, <<208, 7, 180, 0, 0, 10>>),
      CanFrame(1, CAN_OUTPUT_SETTING, <<4, 0>>),
      CanFrame(1, CAN_ECU_ERROR, <<1, 128>>),
      CanFrame(1, CAN_INV_ERROR, <<16, 0>>),
      CanFrame(1, CAN_BT_ERROR, <<0, 4>>)>>

CanWarmState == HandleAll(CanInitState, WarmFrames)

CanIdle ==
    /\ canState = CanInitState /\ canPrev = CanInitState /\ canData = <<0>>
    /\ canHasCb = FALSE /\ canCalls = <<>>

CanInit ==
    /\ canState \in {CanInitState, CanWarmState}
    /\ canPrev = canState
    /\ canData = <<0>>
    /\ canHasCb \in BOOLEAN
    /\ canCalls = <<>>

\* the transport calls _handle_can_data with one notification
CanNotify ==
    /\ canData = <<0>>
    /\ \E data \in CanNotifications :
          /\ canData' = data
          /\ canPrev' = canState
          /\ canState' = HandleCanData(canState, data)
          /\ canCalls' = canCalls \o NotifyOwner(HandleCanData(canState, data),
                                               data, canHasCb)
    /\ UNCHANGED canHasCb
    /\ UNCHANGED notCan

(***************************************************************************)
(* Connection lifecycle: PollAPI/PushAPI connect(), disconnect(),          *)
(* PushAPI._with_stream_paused and engine_stop().  Every await of the      *)
(* source is a position of the coroutine; an action is the completion of   *)
(* one await together with the code up to the next one.                    *)
(***************************************************************************)
MaxConnects == 2        \* connect() calls on the instance
MaxDisconnects == 2     \* disconnect() calls on the instance
MaxEngineStops == 1     \* engine_stop() calls on the instance

\* outcome of one awaited transport operation
Outcomes == {"ok", "timeout", "bleak"}

\* a stream guard that has not been entered
NoGuard == [state |-> "none", was_active |-> FALSE, up |-> FALSE,
            stops |-> 0, starts |-> 0, clean |-> TRUE, op |-> "none"]

LifeIdle ==
    /\ arch = "poll" /\ client = "none" /\ connected = FALSE
    /\ shutting_down = FALSE /\ stream_active = FALSE /\ lock = "free"
    /\ cpc = "idle" /\ cret = "none" /\ cOps = <<>> /\ cReuse = FALSE
    /\ cCancelAt = "none" /\ cAuth = "none" /\ cProfile = "none" /\ serialKind = "none"
    /\ cg = NoGuard
    /\ nConnect = 0 /\ dpc = "idle" /\ dOps = <<>> /\ dFound = "none"
    /\ nDisconnect = 0 /\ epc = "idle" /\ eret = "none" /\ eg = NoGuard
    /\ nEngineStop = 0

\* PollAPI.__init__ / PushAPI.__init__
LifeInit ==
    /\ arch \in {"poll", "push"}
    /\ client = "none" /\ connected = FALSE
    /\ shutting_down = FALSE /\ stream_active = FALSE /\ lock = "free"
    /\ cpc = "idle" /\ cret = "none" /\ cOps = <<>> /\ cReuse = FALSE
    /\ cCancelAt = "none" /\ cAuth = "none" /\ cProfile = "none" /\ serialKind = "none"
    /\ cg = NoGuard
    /\ nConnect = 0 /\ dpc = "idle" /\ dOps = <<>> /\ dFound = "none"
    /\ nDisconnect = 0 /\ epc = "idle" /\ eret = "none" /\ eg = NoGuard
    /\ nEngineStop = 0

dVars == <<dpc, dOps, dFound, nDisconnect>>
eVars == <<epc, eret, eg, nEngineStop>>

\* an awaited operation can succeed only on a live link
Possible(r) == r = "ok" => client = "up"

\* connect() leaves the "async with self._lock" block
ConnEnd(ret) ==
    /\ cpc' = "done"
    /\ cret' = ret
    /\ lock' = "free"
    /\ UNCHANGED cOps

\* connect() calls a transport operation and is suspended in it
ConnAwait(step, op) ==
    /\ cpc' = step
    /\ cOps' = Append(cOps, op)
    /\ UNCHANGED <<cret, lock>>

\* "if self._shutting_down: return False", then the next operation
ConnCheckThen(step, op) ==
    IF shutting_down THEN ConnEnd("false") ELSE ConnAwait(step, op)

\* connect() inside the lock, up to its first await
ConnLocked ==
    IF shutting_down
      THEN /\ cpc' = "done" /\ cret' = "false" /\ lock' = "free"
           /\ cOps' = <<>> /\ cReuse' = FALSE
    ELSE IF client # "up"
      THEN /\ cpc' = "establish" /\ cOps' = <<"establish_connection">>
           /\ lock' = "connect" /\ cReuse' = FALSE /\ cret' = "none"
    ELSE /\ cReuse' = TRUE /\ lock' = "connect" /\ cret' = "none"
         /\ IF arch = "poll"
              THEN cpc' = "pair" /\ cOps' = <<"pair">>
              ELSE cpc' = "sub1" /\ cOps' = <<"start_notify_data">>

\* a connect() without the shutdown test at entry
ConnCallUnchecked ==
    /\ cpc \in {"idle", "done"}
    /\ nConnect < MaxConnects
    /\ nConnect' = nConnect + 1
    /\ cCancelAt' = "none" /\ cAuth' = "none" /\ cProfile' = "none" /\ cg' = NoGuard
    /\ IF lock # "free"
         THEN /\ cpc' = "lock" /\ cret' = "none"
              /\ cOps' = <<>> /\ cReuse' = FALSE /\ UNCHANGED lock
       ELSE ConnLocked
    /\ UNCHANGED <<arch, client, connected, shutting_down, stream_active,
                   serialKind>>
    /\ UNCHANGED <<dVars, eVars>>
    /\ UNCHANGED notLife

\* connect() is called: the check before the lock, and the lock if it is free.
\* (The lock is never found taken: only disconnect() holds it while connect()
\* is not running, and disconnect() sets the flag first.)
ConnCall ==
    /\ cpc \in {"idle", "done"}
    /\ nConnect < MaxConnects
    /\ nConnect' = nConnect + 1
    /\ cCancelAt' = "none" /\ cAuth' = "none" /\ cProfile' = "none" /\ cg' = NoGuard
    /\ IF shutting_down
         THEN /\ cpc' = "done" /\ cret' = "false"
              /\ cOps' = <<>> /\ cReuse' = FALSE /\ UNCHANGED lock
       ELSE IF lock # "free"
         THEN /\ cpc' = "lock" /\ cret' = "none"
              /\ cOps' = <<>> /\ cReuse' = FALSE /\ UNCHANGED lock
       ELSE ConnLocked
    /\ UNCHANGED <<arch, client, connected, shutting_down, stream_active,
                   serialKind>>
    /\ UNCHANGED <<dVars, eVars>>
    /\ UNCHANGED notLife

\* establish_connection returned or raised
ConnEstablished ==
    /\ cpc = "establish"
    /\ \E r \in Outcomes :
          IF r = "ok"
            THEN /\ client' = "up"
                 /\ IF arch = "poll"
                      THEN ConnCheckThen("pair", "pair")
                      ELSE ConnCheckThen("sub1", "start_notify_data")
            ELSE /\ client' = "none"
                 /\ ConnEnd("APIConnectionError")
    /\ UNCHANGED <<arch, connected, shutting_down, stream_active, cReuse,
                   cCancelAt, cAuth, cProfile, serialKind, cg, nConnect>>
    /\ UNCHANGED <<dVars, eVars>>
    /\ UNCHANGED notLife

connFrame == <<arch, client, connected, shutting_down, stream_active, cReuse,
               cCancelAt, cAuth, cProfile, serialKind, cg, nConnect>>

\* PollAPI: pair() returned or raised (both tolerated)
ConnPaired ==
    /\ arch = "poll" /\ cpc = "pair"
    /\ \E r \in Outcomes : Possible(r)
    /\ ConnCheckThen("sub1", "start_notify_diag")
    /\ UNCHANGED connFrame
    /\ UNCHANGED <<dVars, eVars>>
    /\ UNCHANGED notLife

\* the first start_notify returned or raised
ConnSubscribed1 ==
    /\ cpc = "sub1"
    /\ \E r \in Outcomes :
          /\ Possible(r)
          /\ IF r = "ok"
               THEN IF arch = "poll"
                      THEN ConnAwait("sub2", "start_notify_engine")
                      ELSE ConnAwait("sub2", "start_notify_can")
             ELSE IF arch = "poll"
               THEN ConnEnd(IF r = "bleak" THEN "BleakError" ELSE "TimeoutError")
             ELSE ConnEnd(IF r = "bleak" THEN "APIConnectionError"
                          ELSE "TimeoutError")
    /\ UNCHANGED connFrame
    /\ UNCHANGED <<dVars, eVars>>
    /\ UNCHANGED notLife

\* the second start_notify returned or raised
ConnSubscribed2 ==
    /\ cpc = "sub2"
    /\ \E r \in Outcomes :
          /\ Possible(r)
          /\ IF r = "ok"
               THEN IF arch = "poll"
                      THEN ConnCheckThen("guest", "read_guest_validity")
                      ELSE ConnAwait("sub3", "start_notify_error")
             ELSE IF arch = "poll"
               THEN ConnEnd(IF r = "bleak" THEN "BleakError" ELSE "TimeoutError")
             ELSE ConnEnd(IF r = "bleak" THEN "APIConnectionError"
                          ELSE "TimeoutError")
    /\ UNCHANGED connFrame
    /\ UNCHANGED <<dVars, eVars>>
    /\ UNCHANGED notLife

\* PushAPI: the third start_notify returned or raised
ConnSubscribed3 ==
    /\ arch = "push" /\ cpc = "sub3"
    /\ \E r \in Outcomes :
          /\ Possible(r)
          /\ IF r = "ok" THEN ConnCheckThen("auth", "write_auth")
             ELSE ConnEnd(IF r = "bleak" THEN "APIConnectionError"
                          ELSE "TimeoutError")
    /\ UNCHANGED connFrame
    /\ UNCHANGED <<dVars, eVars>>
    /\ UNCHANGED notLife

\* PollAPI step 1: the guest-validity read returned or failed (tolerated)
ConnGuestRead ==
    /\ arch = "poll" /\ cpc = "guest"
    /\ \E r \in Outcomes : Possible(r)
    /\ ConnCheckThen("auth", "write_auth")
    /\ UNCHANGED connFrame
    /\ UNCHANGED <<dVars, eVars>>
    /\ UNCHANGED notLife

\* PushAPI: connect() calls _start_data_stream
ConnStartStream ==
    IF shutting_down THEN ConnEnd("false")
    ELSE IF client # "up" THEN ConnEnd("APIConnectionError")
    ELSE ConnAwait("start", "write_start_stream")

authFrame == <<arch, client, connected, shutting_down, stream_active, cReuse,
               cCancelAt, cProfile, serialKind, cg, nConnect>>

\* the authentication write returned or raised
ConnAuthTimeoutIgnored ==
    /\ cpc = "auth"
    /\ \E r \in Outcomes :
          /\ Possible(r)
          /\ cAuth' = r
          /\ IF r \in {"ok", "timeout"}
               THEN IF arch = "poll"
                      THEN ConnCheckThen("serial", "read_serial")
                      ELSE ConnStartStream
             ELSE IF arch = "poll" THEN ConnEnd("BleakError")
             ELSE ConnEnd("APIConnectionError")
    /\ UNCHANGED authFrame
    /\ UNCHANGED <<dVars, eVars>>
    /\ UNCHANGED notLife
ConnAuthenticated ==
    /\ cpc = "auth"
    /\ \E r \in Outcomes :
          /\ Possible(r)
          /\ cAuth' = r
          /\ IF r = "ok"
               THEN IF arch = "poll"
                      THEN ConnCheckThen("serial", "read_serial")
                      ELSE ConnStartStream
             ELSE IF r = "timeout" THEN ConnEnd("APIConnectionError")
             ELSE IF arch = "poll" THEN ConnEnd("BleakError")
             ELSE ConnEnd("APIConnectionError")
    /\ UNCHANGED authFrame
    /\ UNCHANGED <<dVars, eVars>>
    /\ UNCHANGED notLife

\* PollAPI step 3: the serial read returned or failed
ConnSerialRead ==
    /\ arch = "poll" /\ cpc = "serial"
    /\ \E r \in Outcomes :
          /\ Possible(r)
          /\ IF r = "ok"
               THEN \E k \in {"known", "unknown", "empty"} :
                      /\ serialKind' = k
                      /\ IF k = "known"
                           THEN ConnCheckThen("ctrl_read", "read_control_sequence")
                         ELSE IF k = "unknown"
                           THEN ConnCheckThen("register", "write_serial")
                         ELSE ConnCheckThen("firmware", "read_firmware")
             ELSE /\ ConnEnd("APIConnectionError")
                  /\ UNCHANGED serialKind
    /\ UNCHANGED <<arch, client, connected, shutting_down, stream_active,
                   cReuse, cCancelAt, cAuth, cProfile, cg, nConnect>>
    /\ UNCHANGED <<dVars, eVars>>
    /\ UNCHANGED notLife

\* PollAPI step 4: the control-sequence read returned or failed
ConnControlRead ==
    /\ arch = "poll" /\ cpc = "ctrl_read"
    /\ \E r \in Outcomes, profile_ok \in BOOLEAN :
          /\ Possible(r)
          /\ cProfile' = IF r # "ok" THEN "failed"
                         ELSE IF profile_ok THEN "match" ELSE "mismatch"
          /\ IF r = "ok" /\ ~profile_ok
               THEN ConnAwait("ctrl_write", "write_control_sequence")
               ELSE ConnCheckThen("register", "write_serial")
    /\ UNCHANGED <<arch, client, connected, shutting_down, stream_active,
                   cReuse, cCancelAt, cAuth, serialKind, cg, nConnect>>
    /\ UNCHANGED <<dVars, eVars>>
    /\ UNCHANGED notLife

\* the corrective control-sequence write returned or failed
ConnControlWritten ==
    /\ arch = "poll" /\ cpc = "ctrl_write"
    /\ \E r \in Outcomes :
          /\ Possible(r)
          /\ IF r = "ok"
               THEN ConnAwait("ctrl_verify", "read_control_sequence")
               ELSE ConnCheckThen("register", "write_serial")
    /\ UNCHANGED connFrame
    /\ UNCHANGED <<dVars, eVars>>
    /\ UNCHANGED notLife

\* the read back of the control sequence returned or failed
ConnControlVerified ==
    /\ arch = "poll" /\ cpc = "ctrl_verify"
    /\ \E r \in Outcomes : Possible(r)
    /\ ConnCheckThen("register", "write_serial")
    /\ UNCHANGED connFrame
    /\ UNCHANGED <<dVars, eVars>>
    /\ UNCHANGED notLife

\* PollAPI step 5: the serial registration write returned or failed
ConnRegistered ==
    /\ arch = "poll" /\ cpc = "register"
    /\ \E r \in Outcomes : Possible(r)
    /\ ConnCheckThen("firmware", "read_firmware")
    /\ UNCHANGED connFrame
    /\ UNCHANGED <<dVars, eVars>>
    /\ UNCHANGED notLife

\* a connect() whose firmware read is fatal: a failed read raises
ConnFirmwareFatal ==
    /\ arch = "poll" /\ cpc = "firmware"
    /\ \E r \in Outcomes :
          /\ Possible(r)
          /\ connected' = IF r = "ok" THEN TRUE ELSE connected
          /\ ConnEnd(IF r = "ok" THEN "true" ELSE "APIConnectionError")
    /\ UNCHANGED <<arch, client, shutting_down, stream_active, cReuse,
                   cCancelAt, cAuth, cProfile, serialKind, cg, nConnect>>
    /\ UNCHANGED <<dVars, eVars>>
    /\ UNCHANGED notLife

\* PollAPI step 6: the firmware read returned or failed; connect() completes
ConnFirmwareRead ==
    /\ arch = "poll" /\ cpc = "firmware"
    /\ \E r \in Outcomes : Possible(r)
    /\ connected' = TRUE
    /\ ConnEnd("true")
    /\ UNCHANGED <<arch, client, shutting_down, stream_active, cReuse,
                   cCancelAt, cAuth, cProfile, serialKind, cg, nConnect>>
    /\ UNCHANGED <<dVars, eVars>>
    /\ UNCHANGED notLife

\* the guard's finally clause: "if was_active and self._connected"
Resume(was_active) == was_active /\ connected

\* PushAPI: the start-stream write returned or raised; on success connect()
\* enters _with_stream_paused for the serial read
ConnStreamStarted ==
    /\ arch = "push" /\ cpc = "start"
    /\ \E r \in Outcomes :
          /\ Possible(r)
          /\ IF r = "ok"
               THEN /\ stream_active' = TRUE
                    /\ IF shutting_down
                         THEN ConnEnd("false") /\ UNCHANGED cg
                         ELSE /\ ConnAwait("g_stop", "write_stop_stream")
                              /\ cg' = [NoGuard EXCEPT !.state = "in",
                                           !.was_active = TRUE, !.up = TRUE,
                                           !.stops = 1]
               ELSE /\ ConnEnd("APIConnectionError")
                    /\ UNCHANGED <<stream_active, cg>>
    /\ UNCHANGED <<arch, client, connected, shutting_down, cReuse, cCancelAt, cAuth, cProfile,
                   serialKind, nConnect>>
    /\ UNCHANGED <<dVars, eVars>>
    /\ UNCHANGED notLife

\* the guard's stop-stream write returned or failed (caught); sleep 0.1 s
ConnGuardStopped ==
    /\ arch = "push" /\ cpc = "g_stop"
    /\ \E r \in Outcomes :
          /\ Possible(r)
          /\ IF r = "ok"
               THEN stream_active' = FALSE /\ UNCHANGED cg
               ELSE cg' = [cg EXCEPT !.clean = FALSE] /\ UNCHANGED stream_active
    /\ cpc' = "g_sleep"
    /\ UNCHANGED <<arch, client, connected, shutting_down, lock, cret, cOps,
                   cReuse, cCancelAt, cAuth, cProfile, serialKind, nConnect>>
    /\ UNCHANGED <<dVars, eVars>>
    /\ UNCHANGED notLife

\* the sleep is over: the protected serial read is called
ConnGuardSlept ==
    /\ arch = "push" /\ cpc = "g_sleep"
    /\ ConnAwait("g_serial", "read_serial")
    /\ UNCHANGED connFrame
    /\ UNCHANGED <<dVars, eVars>>
    /\ UNCHANGED notLife

\* connect() leaves the guard and completes
ConnGuardExit(g) ==
    /\ cg' = [g EXCEPT !.state = "out"]
    /\ connected' = TRUE
    /\ ConnEnd("true")

\* the protected serial read returned or failed; the guard's finally clause
ConnGuardSerialRead ==
    /\ arch = "push" /\ cpc = "g_serial"
    /\ \E r \in Outcomes :
          /\ Possible(r)
          /\ serialKind' = IF r = "ok" THEN "known" ELSE "unknown"
          /\ LET g == [cg EXCEPT !.op = IF r = "ok" THEN "ok" ELSE "failed"]
             IN  IF Resume(cg.was_active) /\ client = "up"
                   THEN /\ cg' = [g EXCEPT !.starts = g.starts + 1]
                        /\ ConnAwait("g_restart", "write_start_stream")
                        /\ UNCHANGED connected
                   ELSE ConnGuardExit(g)
    /\ UNCHANGED <<arch, client, shutting_down, stream_active, cReuse,
                   cCancelAt, cAuth, cProfile, nConnect>>
    /\ UNCHANGED <<dVars, eVars>>
    /\ UNCHANGED notLife

\* the guard's start-stream write returned or failed (caught)
ConnGuardRestarted ==
    /\ arch = "push" /\ cpc = "g_restart"
    /\ \E r \in Outcomes :
          /\ Possible(r)
          /\ IF r = "ok"
               THEN stream_active' = TRUE /\ ConnGuardExit(cg)
               ELSE /\ ConnGuardExit([cg EXCEPT !.clean = FALSE])
                    /\ UNCHANGED stream_active
    /\ UNCHANGED <<arch, client, shutting_down, cReuse, cCancelAt, cAuth, cProfile,
                   serialKind, nConnect>>
    /\ UNCHANGED <<dVars, eVars>>
    /\ UNCHANGED notLife

(***************************************************************************)
(* disconnect()                                                            *)
(***************************************************************************)
cVars == <<cpc, cret, cOps, cReuse, serialKind, cg, nConnect>>

\* disconnect() leaves the lock block: the handle is dropped, then
\* "self.connected = False; return True"
DiscEnd ==
    /\ client' = "none"
    /\ lock' = "free"
    /\ connected' = FALSE
    /\ dpc' = "done"

\* disconnect() inside the lock, up to its first await
DiscLocked ==
    IF client = "none"
      THEN /\ dFound' = "no_handle" /\ dOps' = <<>>
           /\ DiscEnd
           /\ UNCHANGED stream_active
    ELSE IF arch = "push" /\ stream_active /\ client = "up"
      THEN /\ dFound' = "handle" /\ dOps' = <<"write_stop_stream">>
           /\ dpc' = "stream_stop" /\ lock' = "disconnect"
           /\ UNCHANGED <<client, connected, stream_active>>
    ELSE IF client = "up"
      THEN /\ dFound' = "handle_up"
           /\ dOps' = <<IF arch = "poll" THEN "stop_notify_diag"
                        ELSE "stop_notify_data">>
           /\ dpc' = "stop1" /\ lock' = "disconnect"
           /\ UNCHANGED <<client, connected, stream_active>>
    ELSE /\ dFound' = "handle_down" /\ dOps' = <<>>
         /\ DiscEnd
         /\ UNCHANGED stream_active

\* the flag set only by a disconnect() that finds the lock free
DiscSetFlagWhenFree == shutting_down' = (shutting_down \/ lock = "free")

\* "self._shutting_down = True", the first statement of disconnect()
DiscSetFlag == shutting_down' = TRUE

\* disconnect() is called: the flag is set, then the lock is taken if free
DiscCall ==
    /\ dpc \in {"idle", "done"}
    /\ nDisconnect < MaxDisconnects
    /\ nDisconnect' = nDisconnect + 1
    /\ DiscSetFlag
    /\ UNCHANGED <<cAuth, cProfile>>
    /\ cCancelAt' = IF ~shutting_down /\ cpc \notin {"idle", "done"}
                    THEN cpc ELSE cCancelAt
    /\ IF lock # "free"
         THEN /\ dpc' = "lock" /\ dOps' = <<>> /\ dFound' = "none"
              /\ UNCHANGED <<client, connected, stream_active, lock>>
         ELSE DiscLocked
    /\ UNCHANGED <<arch, cVars, eVars>>
    /\ UNCHANGED notLife

\* the lock is released to the waiting disconnect()
DiscLockAcquired ==
    /\ dpc = "lock"
    /\ lock = "free"
    /\ DiscLocked
    /\ UNCHANGED <<arch, shutting_down, cCancelAt, cAuth, cProfile, nDisconnect, cVars,
                   eVars>>
    /\ UNCHANGED notLife

DiscAwait(step, op) ==
    /\ dpc' = step
    /\ dOps' = Append(dOps, op)
    /\ UNCHANGED <<client, connected, lock>>

\* PushAPI: the stop-stream write returned or failed (caught); then
\* "if self._client.is_connected"
DiscStreamStopped ==
    /\ arch = "push" /\ dpc = "stream_stop"
    /\ \E r \in Outcomes :
          /\ Possible(r)
          /\ stream_active' = IF r = "ok" THEN FALSE ELSE stream_active
    /\ IF client = "up"
         THEN DiscAwait("stop1", "stop_notify_data") /\ dFound' = "handle_up"
         ELSE DiscEnd /\ UNCHANGED <<dOps, dFound>>
    /\ UNCHANGED <<arch, shutting_down, cCancelAt, cAuth, cProfile, nDisconnect, cVars,
                   eVars>>
    /\ UNCHANGED notLife

\* PushAPI: one try block holds the three stop_notify calls, so a failure
\* goes to the handler and on to the sleep
DiscAfterStopFailed(next, op) ==
    /\ dpc' = "sleep"
    /\ UNCHANGED <<dOps, client, connected, lock>>

\* the first stop_notify returned or raised
DiscStopped1 ==
    /\ dpc = "stop1"
    /\ \E r \in Outcomes :
          /\ Possible(r)
          /\ IF arch = "poll" THEN DiscAwait("stop2", "stop_notify_engine")
             ELSE IF r = "ok" THEN DiscAwait("stop2", "stop_notify_can")
             ELSE DiscAfterStopFailed("stop2", "stop_notify_can")
    /\ UNCHANGED <<arch, shutting_down, stream_active, cCancelAt, cAuth, cProfile, dFound,
                   nDisconnect, cVars, eVars>>
    /\ UNCHANGED notLife

\* the second stop_notify returned or raised
DiscStopped2 ==
    /\ dpc = "stop2"
    /\ \E r \in Outcomes :
          /\ Possible(r)
          /\ IF arch = "poll"
               THEN dpc' = "sleep" /\ UNCHANGED <<dOps, client, connected, lock>>
             ELSE IF r = "ok" THEN DiscAwait("stop3", "stop_notify_error")
             ELSE DiscAfterStopFailed("stop3", "stop_notify_error")
    /\ UNCHANGED <<arch, shutting_down, stream_active, cCancelAt, cAuth, cProfile, dFound,
                   nDisconnect, cVars, eVars>>
    /\ UNCHANGED notLife

\* PushAPI: the third stop_notify returned or raised
DiscStopped3 ==
    /\ arch = "push" /\ dpc = "stop3"
    /\ \E r \in Outcomes : Possible(r)
    /\ dpc' = "sleep"
    /\ UNCHANGED <<dOps, client, connected, lock>>
    /\ UNCHANGED <<arch, shutting_down, stream_active, cCancelAt, cAuth, cProfile, dFound,
                   nDisconnect, cVars, eVars>>
    /\ UNCHANGED notLife

\* the 0.1 s pause is over: _client.disconnect() is called
DiscSlept ==
    /\ dpc = "sleep"
    /\ DiscAwait("disc", "disconnect")
    /\ UNCHANGED <<arch, shutting_down, stream_active, cCancelAt, cAuth, cProfile, dFound,
                   nDisconnect, cVars, eVars>>
    /\ UNCHANGED notLife

\* _client.disconnect() returned (the transport's callback has run) or
\* raised (caught); the finally clause drops the handle
DiscDisconnected ==
    /\ dpc = "disc"
    /\ \E r \in Outcomes :
          stream_active' = IF r = "ok" /\ arch = "push" THEN FALSE
                           ELSE stream_active
    /\ DiscEnd
    /\ UNCHANGED <<arch, shutting_down, cCancelAt, cAuth, cProfile, dOps, dFound, nDisconnect,
                   cVars, eVars>>
    /\ UNCHANGED notLife

(***************************************************************************)
(* PushAPI.engine_stop() under _with_stream_paused                         *)
(***************************************************************************)
othersE == <<arch, shutting_down, lock, cCancelAt, cAuth, cProfile, cVars, dVars>>

\* the finally clause of the guard around engine_stop's command
EngFinally(g, ret) ==
    /\ eret' = ret
    /\ IF Resume(g.was_active) /\ client = "up"
         THEN /\ eg' = [g EXCEPT !.starts = g.starts + 1]
              /\ epc' = "restart"
         ELSE /\ eg' = [g EXCEPT !.state = "out"]
              /\ epc' = "done"

\* engine_stop() is called
EngCall ==
    /\ arch = "push"
    /\ epc \in {"idle", "done"}
    /\ nEngineStop < MaxEngineStops
    /\ nEngineStop' = nEngineStop + 1
    /\ IF client # "up"
         THEN epc' = "done" /\ eret' = "false" /\ eg' = NoGuard
         ELSE /\ eret' = "none"
              /\ IF stream_active
                   THEN /\ epc' = "stop"
                        /\ eg' = [NoGuard EXCEPT !.state = "in",
                                     !.was_active = TRUE, !.up = TRUE,
                                     !.stops = 1]
                   ELSE /\ epc' = "op"
                        /\ eg' = [NoGuard EXCEPT !.state = "in", !.up = TRUE]
    /\ UNCHANGED <<client, connected, stream_active, othersE>>
    /\ UNCHANGED notLife

\* the guard's stop-stream write returned or failed (caught); sleep 0.1 s
EngGuardStopped ==
    /\ epc = "stop"
    /\ \E r \in Outcomes :
          /\ Possible(r)
          /\ IF r = "ok"
               THEN stream_active' = FALSE /\ UNCHANGED eg
               ELSE eg' = [eg EXCEPT !.clean = FALSE] /\ UNCHANGED stream_active
    /\ epc' = "sleep"
    /\ UNCHANGED <<client, connected, eret, nEngineStop, othersE>>
    /\ UNCHANGED notLife

\* the sleep is over: the engine-stop command is written, unless the handle
\* is gone (self._client is None: the attribute access raises)
EngGuardSlept ==
    /\ epc = "sleep"
    /\ IF client = "none"
         THEN EngFinally([eg EXCEPT !.op = "failed"], "AttributeError")
         ELSE epc' = "op" /\ UNCHANGED <<eret, eg>>
    /\ UNCHANGED <<client, connected, stream_active, nEngineStop, othersE>>
    /\ UNCHANGED notLife

\* the engine-stop write returned (then sleep 0.5 s) or failed
EngCommandWritten ==
    /\ epc = "op"
    /\ \E r \in Outcomes :
          /\ Possible(r)
          /\ IF r = "ok"
               THEN epc' = "op_sleep" /\ eg' = [eg EXCEPT !.op = "ok"]
                    /\ UNCHANGED eret
               ELSE EngFinally([eg EXCEPT !.op = "failed"], "false")
    /\ UNCHANGED <<client, connected, stream_active, nEngineStop, othersE>>
    /\ UNCHANGED notLife

\* the 0.5 s pause is over: return True through the finally clause
EngCommandSlept ==
    /\ epc = "op_sleep"
    /\ EngFinally(eg, "true")
    /\ UNCHANGED <<client, connected, stream_active, nEngineStop, othersE>>
    /\ UNCHANGED notLife

\* the guard's start-stream write returned or failed (caught)
EngGuardRestarted ==
    /\ epc = "restart"
    /\ \E r \in Outcomes :
          /\ Possible(r)
          /\ IF r = "ok"
               THEN /\ stream_active' = TRUE
                    /\ eg' = [eg EXCEPT !.state = "out"]
               ELSE /\ eg' = [eg EXCEPT !.state = "out", !.clean = FALSE]
                    /\ UNCHANGED stream_active
    /\ epc' = "done"
    /\ UNCHANGED <<client, connected, eret, nEngineStop, othersE>>
    /\ UNCHANGED notLife

(***************************************************************************)
(* The transport                                                           *)
(***************************************************************************)
\* the link drops: is_connected turns false and _on_disconnect runs
LinkDrop ==
    /\ client = "up"
    /\ client' = "down"
    /\ connected' = FALSE
    /\ stream_active' = IF arch = "push" THEN FALSE ELSE stream_active
    /\ cg' = IF cg.state = "in" THEN [cg EXCEPT !.clean = FALSE] ELSE cg
    /\ eg' = IF eg.state = "in" THEN [eg EXCEPT !.clean = FALSE] ELSE eg
    /\ UNCHANGED <<arch, shutting_down, lock, cpc, cret, cOps, cReuse,
                   cCancelAt, cAuth, cProfile, serialKind, nConnect, dVars, epc, eret,
                   nEngineStop>>
    /\ UNCHANGED notLife

(***************************************************************************)
(* The supervisor: HondaGeneratorCoordinator.async_update_data and the     *)
(* protocol-client instances it creates, for the Poll architecture.  A     *)
(* refresh is one action: the coordinator never runs two refreshes at once.*)
(***************************************************************************)
MaxInstances == 3       \* instances the supervisor may create
MaxFailures == 4        \* cap of the consecutive-failure counter
MaxElapsed == 3         \* clock steps since the supervisor was constructed
GracePeriods == {0, 2}  \* configured startup grace periods

graceVars == <<grace_period_logged_expired, nGraceNotified>>

InGraceWhileUnexpired(connected_once, period, elapsed) ==
    period > 0 /\ elapsed < period
InStartupGracePeriod(connected_once, period, elapsed) ==
    IF connected_once THEN FALSE
    ELSE IF period <= 0 THEN FALSE
    ELSE elapsed < period

\* an instance as its constructor leaves it
NewInstance == [client |-> "none", connected |-> FALSE, shut |-> FALSE]

\* how connect() on a new instance can end (see the lifecycle actions):
\* the result, and the handle it leaves behind
ConnectEnds ==
    {<<"true", "up">>, <<"true", "down">>,
     <<"APIConnectionError", "none">>, <<"APIConnectionError", "up">>,
     <<"APIConnectionError", "down">>,
     <<"BleakError", "up">>, <<"BleakError", "down">>}

\* how get_devices() can end
DeviceEnds == {"ok", "APIReadError", "BleakError"}

\* "if self.api is None or not self.api.connected"
NeedsNewInstance(a, insts) == a = 0 \/ ~insts[a].connected

\* the forced reconnect of the except clause: (api, instances, count) after it
ForcedReconnect(a, insts, failures) ==
    IF /\ reconnect_after_failures > 0
       /\ failures >= reconnect_after_failures
       /\ a # 0
      THEN [api |-> 0,
            insts |-> [insts EXCEPT ![a] = [client |-> "none",
                                            connected |-> FALSE,
                                            shut |-> TRUE]],
            failures |-> 0]
      ELSE [api |-> a, insts |-> insts, failures |-> failures]

\* "except (APIConnectionError, UpdateFailed)"
SupFailed(a, insts) ==
    LET f == ForcedReconnect(a, insts, consecutive_failures + 1)
    IN  /\ api' = f.api
        /\ sInst' = f.insts
        /\ consecutive_failures' = f.failures
        /\ sResult' = "UpdateFailed"
        /\ LET notify ==
                 /\ ~has_connected_once
                 /\ ~grace_period_logged_expired
                 /\ ~InStartupGracePeriod(has_connected_once,
                                          startup_grace_period, sElapsed)
           IN  /\ grace_period_logged_expired' =
                    (grace_period_logged_expired \/ notify)
               /\ nGraceNotified' =
                    IF notify THEN nGraceNotified + 1 ELSE nGraceNotified
        /\ UNCHANGED <<has_connected_once, last_ok>>

\* an exhausted read handled like a lost connection
SupReadErrorFails(a, insts) ==
    SupFailed(a, insts)

\* "except APIReadError": the count goes up; the last snapshot is returned
\* when the instance is still connected and a snapshot exists, otherwise
\* UpdateFailed is raised from inside the handler, past the third clause
SupReadError(a, insts) ==
    /\ api' = a /\ sInst' = insts
    /\ consecutive_failures' = consecutive_failures + 1
    /\ sResult' = IF insts[a].connected /\ last_ok THEN "stale"
                  ELSE "UpdateFailed"
    /\ UNCHANGED <<has_connected_once, last_ok>>
    /\ UNCHANGED graceVars

\* get_devices() and what follows it in async_update_data; a read can be
\* exhausted with the link up, or because the link dropped while its last
\* attempt was waiting
SupGetDevices(a, insts) ==
    \E g \in DeviceEnds :
       /\ sDevices' = g
       /\ IF g = "ok"
            THEN /\ insts[a].client = "up" /\ insts[a].connected
                 /\ api' = a /\ sInst' = insts
                 /\ consecutive_failures' = 0
                 /\ has_connected_once' = TRUE
                 /\ last_ok' = TRUE
                 /\ sResult' = "data"
                 /\ UNCHANGED graceVars
          ELSE IF g = "APIReadError"
            THEN /\ insts[a].client = "up" /\ insts[a].connected
                 /\ \E lost \in BOOLEAN :
                       SupReadError(a,
                           IF lost
                             THEN [insts EXCEPT ![a].client = "down",
                                                ![a].connected = FALSE]
                             ELSE insts)
          ELSE \* PollAPI.get_devices: "except BleakError: self.connected = False"
               SupFailed(a, [insts EXCEPT ![a].connected = FALSE])

\* async_update_data
SupRefresh ==
    /\ consecutive_failures < MaxFailures
    /\ IF NeedsNewInstance(api, sInst)
         THEN \/ \* _get_ble_device() found nothing
                 SupFailed(api, sInst) /\ sDevices' = "none"
              \/ /\ Len(sInst) < MaxInstances
                 /\ \E e \in ConnectEnds :
                      LET n == Len(sInst) + 1
                          insts == Append(sInst,
                                     [client |-> e[2],
                                      connected |-> e[1] = "true",
                                      shut |-> FALSE])
                      IN  IF e[1] = "true" THEN SupGetDevices(n, insts)
                          ELSE IF e[1] = "APIConnectionError"
                            THEN SupFailed(n, insts) /\ sDevices' = "none"
                          ELSE \* no except clause catches it
                               /\ api' = n /\ sInst' = insts
                               /\ sResult' = e[1]
                               /\ sDevices' = "none"
                               /\ UNCHANGED <<consecutive_failures,
                                              has_connected_once, last_ok>>
                               /\ UNCHANGED graceVars
         ELSE SupGetDevices(api, sInst)
    /\ sLate' = (sElapsed >= startup_grace_period)
    /\ UNCHANGED <<reconnect_after_failures, sElapsed, startup_grace_period>>
    /\ UNCHANGED notSup

\* the link of some instance's handle drops: _on_disconnect
SupLinkDrop ==
    /\ \E i \in 1..Len(sInst) :
          /\ sInst[i].client = "up"
          /\ sInst' = [sInst EXCEPT ![i].client = "down",
                                    ![i].connected = FALSE]
    /\ UNCHANGED <<api, consecutive_failures, reconnect_after_failures,
                   has_connected_once, last_ok, sResult, sDevices, sElapsed,
                   startup_grace_period, graceVars, sLate>>
    /\ UNCHANGED notSup

\* PollAPI.engine_stop: a stop write timed out or raised, so connected is
\* cleared while the handle is kept
SupEngineStopLost ==
    /\ api # 0
    /\ sInst[api].client = "up" /\ sInst[api].connected
    /\ sInst' = [sInst EXCEPT ![api].connected = FALSE]
    /\ UNCHANGED <<api, consecutive_failures, reconnect_after_failures,
                   has_connected_once, last_ok, sResult, sDevices, sElapsed,
                   startup_grace_period, graceVars, sLate>>
    /\ UNCHANGED notSup

\* the monotonic clock advances
SupTick ==
    /\ sElapsed < MaxElapsed
    /\ sElapsed' = sElapsed + 1
    /\ UNCHANGED <<sInst, api, consecutive_failures, reconnect_after_failures,
                   has_connected_once, last_ok, sResult, sDevices,
                   startup_grace_period, graceVars, sLate>>
    /\ UNCHANGED notSup

SupIdle ==
    /\ sInst = <<>> /\ api = 0 /\ consecutive_failures = 0
    /\ reconnect_after_failures = 0 /\ has_connected_once = FALSE
    /\ last_ok = FALSE /\ sResult = "none" /\ sDevices = "none"
    /\ sElapsed = 0 /\ startup_grace_period = 0
    /\ grace_period_logged_expired = FALSE /\ nGraceNotified = 0
    /\ sLate = FALSE

\* HondaGeneratorCoordinator.__init__ with the configured threshold
SupInit ==
    /\ sInst = <<>> /\ api = 0 /\ consecutive_failures = 0
    /\ reconnect_after_failures \in 0..3
    /\ has_connected_once = FALSE /\ last_ok = FALSE /\ sResult = "none"
    /\ sDevices = "none"
    /\ sElapsed = 0 /\ startup_grace_period \in GracePeriods
    /\ grace_period_logged_expired = FALSE /\ nGraceNotified = 0
    /\ sLate = FALSE

(***************************************************************************)
(* The supervisor's runtime-hours store and service records.  Time is in   *)
(* whole hours; None is Python's None.  The Poll refresh saves inline, the *)
(* Push callback schedules a save task that runs later.                    *)
(***************************************************************************)
None == -1
NoRate == [dh |-> None, dt |-> None]

\* clock readings (hours) and runtime-hours readings the generator reports
TimePoints == {0, 1, 30, 200}
HoursSet == {0, 1, 3, 28}
PowerSet == {0}
BdPowerSet == {None, 0, 50}
MaxTasks == 2

Services == {"oil_change", "fuel_system_check"}
NoRecord == [hours |-> None, date |-> None]
NoInterval == [hours |-> None, days |-> None]

ValidateAnyIncrease(value, now, stored, stamp) == TRUE
ValidateRuntimeHours(value, now, stored, stamp) ==
    IF stored = None THEN TRUE
    ELSE IF value <= stored THEN TRUE
    ELSE IF stamp = None THEN TRUE
    ELSE ~(value - stored > (now - stamp) + 1)

ApplyBoundsForwardOnly(devices, now, stored, stamp) ==
    IF stored = None THEN devices
    ELSE [i \in DOMAIN devices |->
            IF devices[i].device_type = "runtime_hours"
               /\ devices[i].state # None
               /\ ~ValidateRuntimeHours(devices[i].state, now, stored, stamp)
            THEN [devices[i] EXCEPT !.state = stored]
            ELSE devices[i]]
ApplyRuntimeHoursBounds(devices, now, stored, stamp) ==
    IF stored = None THEN devices
    ELSE [i \in DOMAIN devices |->
            IF devices[i].device_type # "runtime_hours" THEN devices[i]
            ELSE IF devices[i].state = None THEN devices[i]
            ELSE IF devices[i].state < stored
                 THEN [devices[i] EXCEPT !.state = stored]
            ELSE IF ~ValidateRuntimeHours(devices[i].state, now, stored, stamp)
                 THEN [devices[i] EXCEPT !.state = stored]
            ELSE devices[i]]

KeepHistory(history, value) == history
PruneHistory(history, value) ==
    SelectSeq(history, LAMBDA entry : entry.hours >= value - 24)

\* the first runtime-hours device whose state is truthy, else None
RuntimeReading(devices) ==
    LET hits == {i \in DOMAIN devices :
                    /\ devices[i].device_type = "runtime_hours"
                    /\ devices[i].state # None
                    /\ devices[i].state # 0}
    IN  IF hits = {} THEN None
        ELSE devices[CHOOSE i \in hits : \A j \in hits : i <= j].state

DeviceList(r, p) ==
    <<[device_type |-> "runtime_hours", state |-> r],
      [device_type |-> "power", state |-> p]>>

\* _async_save_runtime_hours up to its first await
SaveRuntimeHours(value) ==
    LET valid == ValidateRuntimeHours(value, rtNow, rtStored, rtStamp)
        first_time == rtStored = None
        store == valid /\ (first_time \/ value > rtStored)
    IN  /\ rtCand' = value
        /\ rtAt' = rtNow
        /\ rtPrev' = [stored |-> rtStored, stamp |-> rtStamp,
                      history |-> rtHistory]
        /\ rtStored' = IF store THEN value ELSE rtStored
        /\ rtStamp' = IF store THEN rtNow ELSE rtStamp
        /\ rtHistory' =
             IF store
             THEN PruneHistory(
                      Append(rtHistory, [hours |-> value, ts |-> rtNow]), value)
             ELSE rtHistory
        /\ rtSaved' = IF store THEN 1 ELSE 0
        /\ rtInit' = IF valid /\ first_time
                     THEN <<[hours |-> value, date |-> rtNow]>>
                     ELSE rtInit

saveVars == <<rtStored, rtStamp, rtHistory, rtCand, rtAt, rtPrev, rtSaved,
              rtInit>>

\* async_update_data, the part after get_devices returned
PollRefresh(readings) ==
    \E r \in readings \cup {None}, p \in PowerSet :
        LET devices == ApplyRuntimeHoursBounds(DeviceList(r, p), rtNow,
                                               rtStored, rtStamp)
            reading == RuntimeReading(devices)
        IN  /\ rtDevices' = devices
            /\ IF reading # None THEN SaveRuntimeHours(reading)
               ELSE UNCHANGED saveVars
            /\ UNCHANGED <<rtNow, rtTasks, rtReadings, svRecords, svDue, svCall, rtRate, svMarked, rtPush>>
            /\ UNCHANGED notMt

RtPollRefresh == PollRefresh(HoursSet)

\* _handle_push_data_update with coordinator data present
RtPushUpdate ==
    \E r \in HoursSet \cup {None}, p \in PowerSet :
        /\ Len(rtTasks) < MaxTasks
        /\ rtDevices' = ApplyRuntimeHoursBounds(DeviceList(r, p), rtNow,
                                                rtStored, rtStamp)
        /\ rtTasks' = IF r # None THEN Append(rtTasks, r) ELSE rtTasks
        /\ UNCHANGED saveVars
        /\ UNCHANGED <<rtNow, rtReadings, svRecords, svDue, svCall, rtRate, svMarked, rtPush>>
        /\ UNCHANGED notMt

\* PushAPI.__init__: runtime_hours is 0 until an INV_INFO2 frame is decoded
NoFrame == [hours |-> 0, decoded |-> FALSE, first |-> None]

\* a callback that schedules a save only for a decoded value
SchedulesDecoded(state, decoded) == decoded

\* _handle_push_data_update: "if runtime_hours is not None"
Schedules(state, decoded) == state # None

\* PushAPI._handle_can_data for one decoded frame, and the coordinator's
\* _handle_push_data_update it calls with the state (coordinator data
\* present).  inv2 is <<r>> for an INV_INFO2 frame carrying r hours, <<>>
\* for a frame with another CAN id
RtCanFrame ==
    \E inv2 \in {<<>>} \cup {<<r>> : r \in HoursSet}, p \in PowerSet :
        LET push == IF inv2 = <<>> THEN rtPush
                    ELSE [hours |-> inv2[1], decoded |-> TRUE,
                          first |-> IF rtPush.decoded THEN rtPush.first
                                    ELSE inv2[1]]
        IN  /\ Len(rtTasks) < MaxTasks
            /\ rtPush' = push
            /\ rtDevices' = ApplyRuntimeHoursBounds(DeviceList(push.hours, p),
                                                    rtNow, rtStored, rtStamp)
            /\ rtTasks' = IF Schedules(push.hours, push.decoded)
                          THEN Append(rtTasks, push.hours) ELSE rtTasks
            /\ UNCHANGED saveVars
            /\ UNCHANGED <<rtNow, rtReadings, svRecords, svDue, svCall, rtRate,
                           svMarked>>
            /\ UNCHANGED notMt

\* a scheduled _async_save_runtime_hours task starts running
RtSaveTask ==
    /\ rtTasks # <<>>
    /\ SaveRuntimeHours(Head(rtTasks))
    /\ rtTasks' = Tail(rtTasks)
    /\ UNCHANGED <<rtNow, rtReadings, rtDevices, svRecords, svDue, svCall, rtRate, svMarked, rtPush>>
    /\ UNCHANGED notMt

\* services.py
OIL_CHANGE_BREAKIN_INTERVAL == [hours |-> 20, days |-> 30]

InitHours(service_type, hours) ==
    IF service_type = "oil_change" /\ hours < OIL_CHANGE_BREAKIN_INTERVAL.hours
    THEN 0 ELSE hours

\* _async_initialize_service_records, resumed after the save's await
RtInitRecords ==
    /\ rtInit # <<>>
    /\ svRecords' =
         [s \in Services |->
            IF svRecords[s] = NoRecord
            THEN [hours |-> InitHours(s, rtInit[1].hours),
                  date |-> rtInit[1].date]
            ELSE svRecords[s]]
    /\ rtInit' = <<>>
    /\ UNCHANGED <<rtNow, rtStored, rtStamp, rtHistory, rtCand, rtAt, rtPrev,
                   rtSaved, rtTasks, rtReadings, rtDevices, svDue, svCall, rtRate, svMarked, rtPush>>
    /\ UNCHANGED notMt

Tick(times) ==
    /\ \E t \in times : t > rtNow /\ rtNow' = t
    /\ UNCHANGED <<rtStored, rtStamp, rtHistory, rtCand, rtAt, rtPrev,
                   rtSaved, rtTasks, rtInit, rtReadings, rtDevices,
                   svRecords, svDue, svCall, rtRate, svMarked, rtPush>>
    /\ UNCHANGED notMt

RtTick == Tick(TimePoints)

NoCall ==
    [service_type |-> "none", marked |-> FALSE, interval |-> NoInterval,
     due |-> FALSE, held |-> None, fresh |-> None, ret |-> None]

MtIdle ==
    /\ rtNow = 0 /\ rtStored = None /\ rtStamp = None /\ rtHistory = <<>>
    /\ rtCand = None /\ rtAt = None
    /\ rtPrev = [stored |-> None, stamp |-> None, history |-> <<>>]
    /\ rtSaved = 0 /\ rtTasks = <<>> /\ rtInit = <<>>
    /\ rtReadings = <<>> /\ rtDevices = <<>>
    /\ svRecords = [s \in Services |-> NoRecord]
    /\ svDue = [s \in Services |-> None]
    /\ svCall = NoCall
    /\ svMarked = {}
    /\ rtPush = NoFrame
    /\ rtRate = NoRate

MtInit == MtIdle

\* _apply_runtime_hours_bounds on its own: any store the coordinator can
\* hold (value and timestamp are set together), any clock not before it
BdApply ==
    \E r \in HoursSet \cup {None}, p \in BdPowerSet :
        /\ rtReadings' = DeviceList(r, p)
        /\ rtDevices' = ApplyRuntimeHoursBounds(DeviceList(r, p), rtNow,
                                                rtStored, rtStamp)
        /\ UNCHANGED <<rtNow, rtTasks, svRecords, svDue, svCall, rtRate, svMarked, rtPush>>
        /\ UNCHANGED saveVars
        /\ UNCHANGED notMt

BdInit ==
    /\ rtNow \in TimePoints
    /\ rtStored \in HoursSet \cup {None}
    /\ rtStamp \in TimePoints \cup {None}
    /\ (rtStored = None) = (rtStamp = None)
    /\ rtStamp <= rtNow
    /\ rtHistory = <<>>
    /\ rtCand = None /\ rtAt = None
    /\ rtPrev = [stored |-> None, stamp |-> None, history |-> <<>>]
    /\ rtSaved = 0 /\ rtTasks = <<>> /\ rtInit = <<>>
    /\ rtReadings = <<>> /\ rtDevices = <<>>
    /\ svRecords = [s \in Services |-> NoRecord]
    /\ svDue = [s \in Services |-> None]
    /\ svCall = NoCall
    /\ svMarked = {}
    /\ rtPush = NoFrame
    /\ rtRate = NoRate


(***************************************************************************)
(* get_hours_per_day.  A history entry is malformed when its "hours" key   *)
(* is missing (hours = None) or its "ts" does not parse (ts = None).  The  *)
(* rate is kept as the pair it is the quotient of: hours gained and hours  *)
(* of wall-clock time elapsed.                                             *)
(***************************************************************************)
GapHours == 7 * 24

WellFormed(entry) == entry.hours # None /\ entry.ts # None
Parsed(history) == SelectSeq(history, WellFormed)

\* list.sort(key=ts): stable
RECURSIVE InsertByTs(_, _)
InsertByTs(sorted, e) ==
    IF sorted = <<>> THEN <<e>>
    ELSE IF sorted[Len(sorted)].ts <= e.ts THEN Append(sorted, e)
    ELSE Append(InsertByTs(SubSeq(sorted, 1, Len(sorted) - 1), e),
                sorted[Len(sorted)])
RECURSIVE SortByTs(_)
SortByTs(seq) ==
    IF seq = <<>> THEN <<>>
    ELSE InsertByTs(SortByTs(SubSeq(seq, 1, Len(seq) - 1)), seq[Len(seq)])

\* start_idx, 0-based: the loop runs i from the last index down to 1
RECURSIVE ScanGap(_, _)
ScanGap(parsed, i) ==
    IF i < 1 THEN 0
    ELSE IF parsed[i + 1].ts - parsed[i].ts >= GapHours THEN i
    ELSE ScanGap(parsed, i - 1)
StartIdxFirstGap(parsed) ==
    LET gaps == {i \in 1..(Len(parsed) - 1) :
                    parsed[i + 1].ts - parsed[i].ts >= GapHours}
    IN  IF gaps = {} THEN 0 ELSE CHOOSE i \in gaps : \A j \in gaps : i <= j
StartIdx(parsed) == ScanGap(parsed, Len(parsed) - 1)

HoursPerDay(history) ==
    IF Len(history) < 2 THEN NoRate
    ELSE LET parsed == SortByTs(Parsed(history))
             start_idx == StartIdx(parsed)
         IN  IF Len(parsed) < 2 THEN NoRate
             ELSE IF start_idx >= Len(parsed) - 1 THEN NoRate
             ELSE IF parsed[Len(parsed)].ts - parsed[start_idx + 1].ts <= 0
                  THEN NoRate
             ELSE [dh |-> parsed[Len(parsed)].hours
                            - parsed[start_idx + 1].hours,
                   dt |-> parsed[Len(parsed)].ts - parsed[start_idx + 1].ts]

\* histories storage can hold
MaxHistory == 3
RateHours == {1, 3}
RateTimes == {0, 200, 224, 400}
RateEntries ==
    [hours : RateHours, ts : RateTimes]
        \cup {[hours |-> None, ts |-> 200], [hours |-> 1, ts |-> None]}
Histories == UNION {[1..n -> RateEntries] : n \in 0..MaxHistory}

RateCompute ==
    /\ rtRate' = HoursPerDay(rtHistory)
    /\ UNCHANGED <<rtNow, rtStored, rtStamp, rtHistory, rtCand, rtAt, rtPrev,
                   rtSaved, rtTasks, rtInit, rtReadings, rtDevices,
                   svRecords, svDue, svCall, svMarked, rtPush>>
    /\ UNCHANGED notMt

RateInit ==
    /\ rtHistory \in Histories
    /\ rtRate = [dh |-> None, dt |-> 0]
    /\ rtNow = 0 /\ rtStored = None /\ rtStamp = None
    /\ rtCand = None /\ rtAt = None
    /\ rtPrev = [stored |-> None, stamp |-> None, history |-> <<>>]
    /\ rtSaved = 0 /\ rtTasks = <<>> /\ rtInit = <<>>
    /\ rtReadings = <<>> /\ rtDevices = <<>>
    /\ svRecords = [s \in Services |-> NoRecord]
    /\ svDue = [s \in Services |-> None]
    /\ svCall = NoCall
    /\ svMarked = {}
    /\ rtPush = NoFrame


(***************************************************************************)
(* Service tracking: is_service_due, get_estimated_service_date and        *)
(* async_mark_service_complete.  A date is the clock reading in hours; the *)
(* coordinator's two clocks (naive local and UTC) are taken to agree.      *)
(***************************************************************************)
\* MODEL_SERVICE_INTERVALS, the two services kept
ModelInterval(service_type) ==
    IF service_type = "oil_change" THEN [hours |-> 100, days |-> 180]
    ELSE [hours |-> None, days |-> 730]

\* readings and clock of the service scenarios
SvHours == {3, 27, 28}
SvTimes == {0, 30, 31, 800}

\* the interval both functions use for a record
EffectiveInterval(service_type, record) ==
    IF service_type = "oil_change"
       /\ record.hours < OIL_CHANGE_BREAKIN_INTERVAL.hours
    THEN OIL_CHANGE_BREAKIN_INTERVAL
    ELSE ModelInterval(service_type)

CurrentHours(stored) == IF stored = None THEN 0 ELSE stored

IsServiceDue(service_type, record, stored, now) ==
    IF record = NoRecord THEN FALSE
    ELSE LET interval == EffectiveInterval(service_type, record)
         IN  \/ /\ interval.hours # None
                /\ CurrentHours(stored) - record.hours >= interval.hours
             \/ /\ interval.days # None
                /\ (now - record.date) \div 24 >= interval.days

\* the dates get_estimated_service_date collects, before the minimum
Estimates(service_type, record, stored, history, now) ==
    LET interval == EffectiveInterval(service_type, record)
        hours_remaining ==
            (record.hours + interval.hours) - CurrentHours(stored)
        rate == HoursPerDay(history)
    IN  (IF interval.hours = None THEN {}
         ELSE IF rate # NoRate /\ rate.dh > 0
              THEN {now + ((hours_remaining * rate.dt) \div rate.dh)}
         ELSE IF hours_remaining <= 0 THEN {now}
         ELSE {})
        \cup
        (IF interval.days = None THEN {}
         ELSE {record.date + interval.days * 24})

MinOf(dates) == CHOOSE d \in dates : \A e \in dates : d <= e

SnapshotReturnFresh(due, held, fresh) == fresh
SnapshotReturn(due, held, fresh) ==
    IF due /\ held # None THEN held ELSE fresh

SvEstimate ==
    /\ \E s \in Services :
           LET record == svRecords[s]
               estimates == Estimates(s, record, rtStored, rtHistory, rtNow)
               due == IsServiceDue(s, record, rtStored, rtNow)
           IN  IF record = NoRecord \/ estimates = {}
               THEN /\ svCall' = [NoCall EXCEPT !.service_type = s,
                                                !.marked = s \in svMarked,
                                                !.held = svDue[s]]
                    /\ UNCHANGED svDue
               ELSE /\ svCall' =
                         [service_type |-> s,
                          marked |-> s \in svMarked,
                          interval |-> EffectiveInterval(s, record),
                          due |-> due,
                          held |-> svDue[s],
                          fresh |-> MinOf(estimates),
                          ret |-> SnapshotReturn(due, svDue[s], MinOf(estimates))]
                    /\ svDue' =
                         [svDue EXCEPT ![s] =
                             IF due
                             THEN IF svDue[s] # None THEN svDue[s]
                                  ELSE MinOf(estimates)
                             ELSE None]
    /\ UNCHANGED <<rtNow, rtStored, rtStamp, rtHistory, rtCand, rtAt, rtPrev,
                   rtSaved, rtTasks, rtInit, rtReadings, rtDevices, rtRate,
                   svRecords, svMarked, rtPush>>
    /\ UNCHANGED notMt

\* a mark-complete that keeps the snapshotted due date
SvMarkKeepsSnapshot ==
    /\ \E s \in Services :
           /\ svRecords' = [svRecords EXCEPT ![s] =
                               [hours |-> CurrentHours(rtStored), date |-> rtNow]]
           /\ svMarked' = svMarked \cup {s}
    /\ rtSaved' = 1
    /\ UNCHANGED <<rtNow, rtStored, rtStamp, rtHistory, rtCand, rtAt, rtPrev,
                   rtTasks, rtInit, rtReadings, rtDevices, rtRate, svCall,
                   svDue, rtPush>>
    /\ UNCHANGED notMt

\* async_mark_service_complete
SvMarkComplete ==
    /\ \E s \in Services :
           /\ svRecords' = [svRecords EXCEPT ![s] =
                               [hours |-> CurrentHours(rtStored), date |-> rtNow]]
           /\ svDue' = [svDue EXCEPT ![s] = None]
           /\ svMarked' = svMarked \cup {s}
    /\ rtSaved' = 1
    /\ UNCHANGED <<rtNow, rtStored, rtStamp, rtHistory, rtCand, rtAt, rtPrev,
                   rtTasks, rtInit, rtReadings, rtDevices, rtRate, svCall,
                   rtPush>>
    /\ UNCHANGED notMt

SvPollRefresh == PollRefresh(SvHours)
SvTick == Tick(SvTimes)

(***************************************************************************)
(* The reconnect grace period.  The sensors' available property and the    *)
(* stop button are the repository's code; the coordinator's side of it     *)
(* (in_reconnect_grace_period, set_intentional_disconnect, and where a     *)
(* refresh starts and clears the window) follows the specification: the    *)
(* window starts on the first failure after a successful connection unless *)
(* the disconnect was flagged intentional, and is cleared on reconnection. *)
(***************************************************************************)
MaxGraceClock == 3
ReconnectPeriods == {0, 2}

\* coordinator.in_reconnect_grace_period
InReconnectGracePeriod(start, period, now) ==
    start # None /\ now - start < period

\* HondaGeneratorSensor.available; state is the device state, None when the
\* bounds check failed
\* zero: the description's zero_when_unavailable; ok: last_update_success
SensorAvailableNoReconnect(in_startup, in_reconnect, zero, ok, state) ==
    IF in_startup THEN FALSE
    ELSE IF zero THEN ~(ok /\ state = None)
    ELSE IF state = None THEN FALSE
    ELSE ok
SensorAvailable(in_startup, in_reconnect, zero, ok, state) ==
    IF in_startup THEN FALSE
    ELSE IF in_reconnect THEN FALSE
    ELSE IF zero THEN ~(ok /\ state = None)
    ELSE IF state = None THEN FALSE
    ELSE ok

\* a refresh succeeds: the window and the flag are cleared
RgRefreshOk ==
    /\ gOnce' = TRUE /\ gOk' = TRUE /\ gApi' = TRUE
    /\ gStart' = None
    /\ gIntent' = FALSE
    /\ UNCHANGED <<gNow, gPeriod>>
    /\ UNCHANGED notRg

\* a refresh fails: the first failure after a success starts the window
\* unless the disconnect was flagged intentional
RgRefreshFail ==
    /\ gOk' = FALSE
    /\ gStart' = IF gOnce /\ gOk /\ ~gIntent THEN gNow ELSE gStart
    /\ gApi' \in BOOLEAN
    /\ UNCHANGED <<gNow, gPeriod, gOnce, gIntent>>
    /\ UNCHANGED notRg

\* EngineStopButton.async_press: the flag is set before the stop command
RgPressStop ==
    /\ gApi
    /\ gIntent' = TRUE
    /\ UNCHANGED <<gNow, gPeriod, gOnce, gOk, gStart, gApi>>
    /\ UNCHANGED notRg

RgTick ==
    /\ gNow < MaxGraceClock
    /\ gNow' = gNow + 1
    /\ UNCHANGED <<gPeriod, gOnce, gOk, gStart, gIntent, gApi>>
    /\ UNCHANGED notRg

RgIdle ==
    /\ gNow = 0 /\ gPeriod = 0 /\ gOnce = FALSE /\ gOk = TRUE
    /\ gStart = None /\ gIntent = FALSE /\ gApi = FALSE

RgInit ==
    /\ gNow = 0 /\ gPeriod \in ReconnectPeriods /\ gOnce = FALSE /\ gOk = TRUE
    /\ gStart = None /\ gIntent = FALSE /\ gApi = FALSE

(***************************************************************************)
(* PollAPI.get_devices over one poll, and the categories the coordinator   *)
(* asks it to read.  A diagnostic read that succeeds writes its command    *)
(* once and returns the byte the generator holds at that position; the     *)
(* retries of one read are the subject of the diagnostic-read section.     *)
(* The output current is kept in tenths of an ampere.                      *)
(***************************************************************************)
MaxEntries == 2

Categories ==
    {"warnings_faults", "runtime_hours", "current", "power", "eco_mode", "fuel"}
NoCategory == "none"

DEVICE_TYPES_POLL ==
    <<"runtime_hours", "current", "power", "eco_mode", "engine_event",
      "engine_running", "engine_error", "output_voltage", "fuel_level",
      "fuel_remaining_time">>

DEVICE_TYPE_TO_DIAGNOSTIC(device_type) ==
    CASE device_type = "runtime_hours" -> "runtime_hours"
      [] device_type = "current" -> "current"
      [] device_type = "power" -> "power"
      [] device_type = "eco_mode" -> "eco_mode"
      [] device_type = "fuel_level" -> "fuel"
      [] device_type = "fuel_remaining_time" -> "fuel"
      [] OTHER -> NoCategory

BOUNDS_RUNTIME_HOURS == <<0, 100000>>
BOUNDS_CURRENT == <<0, 500>>
BOUNDS_POWER == <<0, 10000>>
BOUNDS_FUEL_LEVEL == <<0, 100>>
BOUNDS_FUEL_REMAINING == <<0, 1440>>

\* struct.unpack(">h", data)[0] and struct.unpack(">H", data)[0]
UnpackSigned(hi, lo) ==
    IF hi * 256 + lo >= 32768 THEN hi * 256 + lo - 65536 ELSE hi * 256 + lo
UnpackUnsigned(hi, lo) == hi * 256 + lo

\* the bounds check of a decoded value
ClampToBounds(value, bounds) ==
    IF value < bounds[1] THEN bounds[1]
    ELSE IF value > bounds[2] THEN bounds[2] ELSE value
CheckBounds(value, bounds) ==
    IF bounds[1] <= value /\ value <= bounds[2] THEN value ELSE None

\* _get_value: the reading's category is required and not enabled
SkipNever(device_type, enabled) == FALSE
SkipRead(device_type, enabled) ==
    /\ DEVICE_TYPE_TO_DIAGNOSTIC(device_type) # NoCategory
    /\ DEVICE_TYPE_TO_DIAGNOSTIC(device_type) \notin enabled

\* _get_value: the positions it reads, in order, and the state it returns;
\* rd[p] is the byte the read of position p returns
GetValue(device_type, enabled, fuel, rd, engine) ==
    IF SkipRead(device_type, enabled)
    THEN [reads |-> <<>>,
          state |-> IF device_type = "eco_mode" THEN FALSE ELSE 0]
    ELSE CASE device_type = "runtime_hours" ->
                [reads |-> <<"B00", "B01">>,
                 state |-> CheckBounds(UnpackSigned(rd["B00"], rd["B01"]),
                                       BOUNDS_RUNTIME_HOURS)]
           [] device_type = "current" ->
                [reads |-> <<"B13", "B14">>,
                 state |-> CheckBounds(UnpackSigned(rd["B13"], rd["B14"]),
                                       BOUNDS_CURRENT)]
           [] device_type = "power" ->
                [reads |-> <<"B17", "B18">>,
                 state |-> CheckBounds(UnpackSigned(rd["B17"], rd["B18"]) * 10,
                                       BOUNDS_POWER)]
           [] device_type = "eco_mode" ->
                [reads |-> <<"B19">>, state |-> ~(rd["B19"] % 2 = 1)]
           [] device_type = "engine_event" ->
                [reads |-> <<>>, state |-> engine.event]
           [] device_type = "engine_running" ->
                [reads |-> <<>>, state |-> engine.running]
           [] device_type = "engine_error" ->
                [reads |-> <<>>, state |-> engine.error]
           [] device_type = "output_voltage" ->
                [reads |-> <<>>, state |-> engine.voltage]
           [] device_type = "fuel_level" ->
                IF ~fuel THEN [reads |-> <<>>, state |-> None]
                ELSE [reads |-> <<"B40">>,
                      state |-> CheckBounds(rd["B40"], BOUNDS_FUEL_LEVEL)]
           [] device_type = "fuel_remaining_time" ->
                IF ~fuel THEN [reads |-> <<>>, state |-> None]
                ELSE [reads |-> <<"B41", "B42">>,
                      state |-> CheckBounds(
                                    UnpackUnsigned(rd["B41"], rd["B42"]),
                                    BOUNDS_FUEL_REMAINING)]
           [] OTHER -> [reads |-> <<>>, state |-> 0]

DiagPositions ==
    {"C10", "D10", "D11", "B00", "B01", "B13", "B14", "B17", "B18", "B19",
     "B40", "B41", "B42"}
HighPositions == {"D10", "B00", "B13", "B17", "B41"}

\* the byte the generator holds at a position
DeviceByte(image, p) == IF p \in HighPositions THEN image[1] ELSE image[2]

NoEngine == [event |-> 0, running |-> FALSE, error |-> 0, voltage |-> 0]
EngineRead == [event |-> 2, running |-> TRUE, error |-> 0, voltage |-> 120]

\* the reads of the warnings/faults block
PreReads(enabled) ==
    IF "warnings_faults" \in enabled THEN <<"C10", "D10", "D11">> ELSE <<>>

RECURSIVE DeviceReads(_, _, _)
DeviceReads(i, enabled, fuel) ==
    IF i > Len(DEVICE_TYPES_POLL) THEN <<>>
    ELSE GetValue(DEVICE_TYPES_POLL[i], enabled, fuel,
                  [p \in DiagPositions |-> 0], NoEngine).reads
         \o DeviceReads(i + 1, enabled, fuel)

\* every read of one uninterrupted get_devices call, in order
ReadPlan(enabled, fuel) == PreReads(enabled) \o DeviceReads(1, enabled, fuel)

IndexOf(seq, x) == CHOOSE i \in 1..Len(seq) : seq[i] = x

\* what can interrupt the call: read `at` finds the link lost (BleakError)
\* or exhausts its attempts (APIReadError), or disconnect() sets the
\* shutdown flag right before read `at` starts
NoCut == [kind |-> "none", at |-> 0]
Cuts(plan) ==
    {NoCut} \cup [kind : {"lost", "exhausted", "shutdown"}, at : 1..Len(plan)]
Raised(cut) == cut.kind \in {"lost", "exhausted"}

\* the bytes the reads of the call return: a read that starts with the
\* shutdown flag set returns b"\x00" without writing
Seen(image, plan, cut) ==
    [p \in DiagPositions |->
        IF /\ cut.kind = "shutdown"
           /\ \E i \in 1..Len(plan) : plan[i] = p
           /\ IndexOf(plan, p) >= cut.at
        THEN 0 ELSE DeviceByte(image, p)]

\* enabled_categories defaults to every category; the argument is <<>> for
\* None and <<S>> for a set S
EnabledOrAll(arg) == IF Len(arg) = 0 THEN Categories ELSE arg[1]

\* PollAPI.get_devices
GetDevices(arg, entries, caller, interruptible) ==
    LET enabled == EnabledOrAll(arg)
        wf == "warnings_faults" \in enabled
        plan == ReadPlan(enabled, gdFuel)
        npre == Len(PreReads(enabled))
    IN
    /\ gdRet = "none"
    /\ gdEntries' = entries /\ gdCaller' = caller /\ gdEnabled' = enabled
    /\ IF gdShut
       THEN /\ gdRet' = "APIConnectionError"
            /\ gdWrites' = <<>> /\ gdDevices' = <<>>
            /\ gdStatus' = "not read"
            /\ UNCHANGED <<gdImage, gdFuel, gdWarn, gdFault, gdEngine, gdShut,
                           gdConn>>
       ELSE \E cut \in IF interruptible THEN Cuts(plan) ELSE {NoCut},
               fresh \in BOOLEAN :
            LET rd == Seen(gdImage, plan, cut)
                \* the call gets past the warnings/faults block
                past == cut.kind = "none" \/ cut.at > npre
                engine == IF past /\ fresh THEN EngineRead ELSE gdEngine
                returns ==
                    \/ cut.kind = "none"
                    \/ /\ cut.kind = "shutdown"
                       /\ plan[cut.at] \in {"B41", "B42"}
            IN
            /\ gdWrites' = IF cut.kind = "none" THEN plan
                           ELSE IF cut.kind = "exhausted"
                           THEN SubSeq(plan, 1, cut.at)
                           ELSE SubSeq(plan, 1, cut.at - 1)
            /\ gdWarn' = IF wf /\ ~(Raised(cut) /\ cut.at = 1)
                         THEN rd["C10"] ELSE gdWarn
            /\ gdFault' = IF /\ wf
                             /\ ~(Raised(cut) /\ cut.at <= 3)
                             /\ ~(cut.kind = "shutdown" /\ cut.at = 1)
                          THEN UnpackUnsigned(rd["D10"], rd["D11"])
                          ELSE gdFault
            /\ gdStatus' = IF ~past THEN "not read"
                           ELSE IF fresh THEN "read" ELSE "failed"
            /\ gdEngine' = engine
            /\ gdShut' = (cut.kind = "shutdown")
            /\ gdConn' = (cut.kind # "lost")
            /\ gdRet' = IF returns THEN "devices"
                        ELSE IF cut.kind = "exhausted" THEN "APIReadError"
                        ELSE "APIConnectionError"
            /\ gdDevices' =
                 IF returns
                 THEN [i \in 1..Len(DEVICE_TYPES_POLL) |->
                          GetValue(DEVICE_TYPES_POLL[i], enabled, gdFuel, rd,
                                   engine).state]
                 ELSE <<>>
            /\ UNCHANGED <<gdImage, gdFuel>>
    /\ UNCHANGED notGd

\* the entities of a poll-architecture generator, by the words of their key
\* (a unique id is "honda_generator-<controller>_<key>")
EntityKeys ==
    {<<"runtime", "hours">>, <<"output", "current">>, <<"output", "power">>,
     <<"output", "voltage">>, <<"eco", "mode", "switch">>,
     <<"fuel", "level">>, <<"fuel", "remaining", "time">>,
     <<"warning", "C02">>, <<"fault", "E01">>}
UniqueId(key) == <<"honda", "generator-HONDA">> \o key

\* the device an entity shows; the alert sensors show the raw warning and
\* fault registers
EntityDevice(key) ==
    CASE key = <<"runtime", "hours">> -> "runtime_hours"
      [] key = <<"output", "current">> -> "current"
      [] key = <<"output", "power">> -> "power"
      [] key = <<"output", "voltage">> -> "output_voltage"
      [] key = <<"eco", "mode", "switch">> -> "eco_mode"
      [] key = <<"fuel", "level">> -> "fuel_level"
      [] key = <<"fuel", "remaining", "time">> -> "fuel_remaining_time"
      [] OTHER -> "alerts"
EntityCategory(key) ==
    IF EntityDevice(key) = "alerts" THEN "warnings_faults"
    ELSE DEVICE_TYPE_TO_DIAGNOSTIC(EntityDevice(key))

\* "pat in uid" on the words between underscores
Contains(uid, pat) ==
    \E i \in 0..(Len(uid) - Len(pat)) :
        \A j \in 1..Len(pat) : uid[i + j] = pat[j]
\* "_word_ in uid": the word with an underscore on either side
Interior(uid, word) == \E i \in 2..(Len(uid) - 1) : uid[i] = word

\* the elif chain of _get_enabled_diagnostic_categories
CategoryOfUid(uid) ==
    IF Interior(uid, "warning") \/ Interior(uid, "fault")
    THEN "warnings_faults"
    ELSE IF Contains(uid, <<"runtime", "hours">>) THEN "runtime_hours"
    ELSE IF Contains(uid, <<"output", "current">>) THEN "current"
    ELSE IF Contains(uid, <<"output", "power">>) THEN "power"
    ELSE IF Contains(uid, <<"eco", "mode">>) THEN "eco_mode"
    ELSE NoCategory

\* HondaGeneratorCoordinator._get_enabled_diagnostic_categories
GetEnabledDiagnosticCategories(entries) ==
    IF entries = {} THEN Categories
    ELSE {CategoryOfUid(UniqueId(e.key)) : e \in {x \in entries : ~x.disabled}}
         \ {NoCategory}

\* registries of at most MaxEntries entities
Registries ==
    {r \in SUBSET [key : EntityKeys, disabled : BOOLEAN] :
        /\ Cardinality(r) <= MaxEntries
        /\ \A a, b \in r : a.key = b.key => a = b}

\* raw bytes on either side of every bound, and negative 16-bit values
Images ==
    {<<0, 100>>, <<0, 101>>, <<1, 244>>, <<1, 245>>, <<3, 232>>, <<3, 233>>,
     <<5, 160>>, <<5, 161>>, <<128, 0>>, <<255, 255>>}
PrevRaws == {9}

\* a refresh of the coordinator: the categories come from the registry
GdRefresh ==
    \E entries \in Registries :
        GetDevices(<<GetEnabledDiagnosticCategories(entries)>>, entries,
                   "coordinator", FALSE)

\* get_devices called with any argument, and interrupted anywhere
GdDirect ==
    \E arg \in {<<>>} \cup {<<S>> : S \in SUBSET Categories} :
        GetDevices(arg, {}, "direct", TRUE)

\* disconnect() sets the shutdown flag before the call
GdDisconnect ==
    /\ gdRet = "none" /\ ~gdShut
    /\ gdShut' = TRUE
    /\ UNCHANGED <<gdImage, gdFuel, gdWarn, gdFault, gdEngine, gdConn,
                   gdEntries, gdEnabled, gdWrites, gdRet, gdDevices, gdCaller,
                   gdStatus>>
    /\ UNCHANGED notGd

GdIdle ==
    /\ gdImage = <<0, 0>> /\ gdFuel = FALSE /\ gdWarn = 0 /\ gdFault = 0
    /\ gdEngine = NoEngine /\ gdShut = FALSE /\ gdConn = FALSE
    /\ gdEntries = {} /\ gdEnabled = {} /\ gdWrites = <<>>
    /\ gdRet = "none" /\ gdDevices = <<>> /\ gdCaller = "none"
    /\ gdStatus = "not read"

GdInit ==
    /\ gdImage \in Images /\ gdFuel \in BOOLEAN
    /\ gdWarn \in PrevRaws /\ gdFault \in PrevRaws
    /\ gdEngine = NoEngine /\ gdShut = FALSE /\ gdConn = TRUE
    /\ gdEntries = {} /\ gdEnabled = {} /\ gdWrites = <<>>
    /\ gdRet = "none" /\ gdDevices = <<>> /\ gdCaller = "none"
    /\ gdStatus = "not read"

(***************************************************************************)
(* The supervisor after async_load_stored_data: what an earlier lifetime   *)
(* saved is back in memory before the first reading is handled.  The       *)
(* stored file holds runtime hours or none, and a record for any subset of *)
(* the services (an installation upgraded from a version that tracked      *)
(* fewer services has hours stored and records missing).                   *)
(***************************************************************************)
\* the service record an earlier lifetime left in storage
LoadedRecord == [hours |-> 3, date |-> 0]

LdInit ==
    /\ rtNow = 0
    /\ rtStored \in SvHours \cup {None}
    /\ rtStamp = (IF rtStored = None THEN None ELSE 0)
    /\ rtHistory = <<>>
    /\ rtCand = None /\ rtAt = None
    /\ rtPrev = [stored |-> None, stamp |-> None, history |-> <<>>]
    /\ rtSaved = 0 /\ rtTasks = <<>> /\ rtInit = <<>>
    /\ rtReadings = <<>> /\ rtDevices = <<>>
    /\ svRecords \in [Services -> {NoRecord, LoadedRecord}]
    /\ svDue = [s \in Services |-> None]
    /\ svCall = NoCall
    /\ svMarked = {}
    /\ rtPush = NoFrame
    /\ rtRate = NoRate

(***************************************************************************)
(* PollAPI.engine_stop(max_attempts): the stop command is written until a  *)
(* write fails or max_attempts writes have succeeded.  The link can drop   *)
(* and disconnect() can drop the client while the call is suspended.       *)
(***************************************************************************)
MaxAttempts == 3        \* the largest max_attempts a caller passes
DEFAULT_STOP_ATTEMPTS == 3

\* while attempts <= max_attempts
LoopsInclusive(attempts, max_attempts) == attempts <= max_attempts

\* while attempts < max_attempts
Loops(attempts, max_attempts) == attempts < max_attempts

\* the loop test, then the next write or "return True"
EsLoop(attempts) ==
    IF Loops(attempts, esMax)
      THEN esPc' = "write" /\ esWrites' = esWrites + 1 /\ UNCHANGED esRet
      ELSE esPc' = "done" /\ esRet' = "true" /\ UNCHANGED esWrites

\* engine_stop(max_attempts) is called, up to its first await
EsCall ==
    /\ esPc \in {"idle", "done"}
    /\ \E max_attempts \in 0..MaxAttempts :
          /\ esMax' = max_attempts
          /\ esEntry' = esClient
          /\ esAttempts' = 0
          /\ esFailed' = "none"
          /\ IF esClient # "up"
               THEN esPc' = "done" /\ esRet' = "false" /\ esWrites' = 0
               ELSE IF Loops(0, max_attempts)
                 THEN esPc' = "write" /\ esRet' = "none" /\ esWrites' = 1
                 ELSE esPc' = "done" /\ esRet' = "true" /\ esWrites' = 0
    /\ UNCHANGED <<esClient, esConnected>>
    /\ UNCHANGED notEs

\* the write returned: attempts += 1, sleep 0.1 s
EsWriteOk ==
    /\ esPc = "write"
    /\ esClient = "up"
    /\ esAttempts' = esAttempts + 1
    /\ esPc' = "sleep"
    /\ UNCHANGED <<esClient, esConnected, esEntry, esMax, esWrites, esFailed,
                   esRet>>
    /\ UNCHANGED notEs

\* the write timed out, or raised (also when the client is gone)
EsWriteFail ==
    /\ esPc = "write"
    /\ \E r \in {"timeout", "error"} : esFailed' = r
    /\ esConnected' = FALSE
    /\ esPc' = "done"
    /\ esRet' = "true"
    /\ UNCHANGED <<esClient, esEntry, esMax, esAttempts, esWrites>>
    /\ UNCHANGED notEs

\* the sleep is over: the loop test
EsSlept ==
    /\ esPc = "sleep"
    /\ EsLoop(esAttempts)
    /\ UNCHANGED <<esClient, esConnected, esEntry, esMax, esAttempts,
                   esFailed>>
    /\ UNCHANGED notEs

\* PollAPI._on_disconnect: the link drops (the generator shut off)
EsLinkDrop ==
    /\ esClient = "up"
    /\ esClient' = "down"
    /\ esConnected' = FALSE
    /\ UNCHANGED <<esEntry, esMax, esPc, esAttempts, esWrites, esFailed, esRet>>
    /\ UNCHANGED notEs

\* disconnect() drops the client
EsRelease ==
    /\ esClient # "none"
    /\ esClient' = "none"
    /\ esConnected' = FALSE
    /\ UNCHANGED <<esEntry, esMax, esPc, esAttempts, esWrites, esFailed, esRet>>
    /\ UNCHANGED notEs

EsIdle ==
    /\ esClient = "none" /\ esConnected = FALSE /\ esEntry = "none"
    /\ esMax = DEFAULT_STOP_ATTEMPTS /\ esPc = "idle" /\ esAttempts = 0
    /\ esWrites = 0 /\ esFailed = "none" /\ esRet = "none"

\* a session before engine_stop is called: connected, or its link lost, or
\* never connected
EsInit ==
    /\ esClient \in {"up", "down", "none"}
    /\ esConnected = (esClient = "up")
    /\ esEntry = "none"
    /\ esMax = DEFAULT_STOP_ATTEMPTS /\ esPc = "idle" /\ esAttempts = 0
    /\ esWrites = 0 /\ esFailed = "none" /\ esRet = "none"

(***************************************************************************)
(* Specifications                                                          *)
(***************************************************************************)
\* checksum round trip
InitCk == CkInit /\ RdIdle /\ CanIdle /\ LifeIdle /\ SupIdle /\ MtIdle /\ RgIdle /\ GdIdle /\ EsIdle
NextCk == CkCorrupt
SpecCk == InitCk /\ [][NextCk]_vars

\* one diagnostic read after another on a connected session
InitRead == CkIdle /\ RdInit /\ CanIdle /\ LifeIdle /\ SupIdle /\ MtIdle /\ RgIdle /\ GdIdle /\ EsIdle
NextRead ==
    \/ RdCall \/ RdAttemptStart \/ RdWriteOk \/ RdWriteFail \/ RdResponse
    \/ RdTimeout \/ RdNotify \/ RdShutdown \/ RdDisconnectStep \/ RdLinkDrop
SpecRead == InitRead /\ [][NextRead]_vars

\* one CAN notification handled from a state the decoder can be in
InitCan == CkIdle /\ RdIdle /\ CanInit /\ LifeIdle /\ SupIdle /\ MtIdle /\ RgIdle /\ GdIdle /\ EsIdle
NextCan == CanNotify
SpecCan == InitCan /\ [][NextCan]_vars

\* one protocol client with concurrent connect(), disconnect(),
\* engine_stop() and link loss
InitLife == CkIdle /\ RdIdle /\ CanIdle /\ LifeInit /\ SupIdle /\ MtIdle /\ RgIdle /\ GdIdle /\ EsIdle
NextLife ==
    \/ ConnCall \/ ConnEstablished \/ ConnPaired
    \/ ConnSubscribed1 \/ ConnSubscribed2 \/ ConnSubscribed3
    \/ ConnGuestRead \/ ConnAuthenticated \/ ConnSerialRead
    \/ ConnControlRead \/ ConnControlWritten \/ ConnControlVerified
    \/ ConnRegistered \/ ConnFirmwareRead
    \/ ConnStreamStarted \/ ConnGuardStopped \/ ConnGuardSlept
    \/ ConnGuardSerialRead \/ ConnGuardRestarted
    \/ DiscCall \/ DiscLockAcquired \/ DiscStreamStopped \/ DiscStopped1
    \/ DiscStopped2 \/ DiscStopped3 \/ DiscSlept \/ DiscDisconnected
    \/ EngCall \/ EngGuardStopped \/ EngGuardSlept \/ EngCommandWritten
    \/ EngCommandSlept \/ EngGuardRestarted
    \/ LinkDrop
SpecLife == InitLife /\ [][NextLife]_vars

\* the supervisor's refreshes over the instances it creates
InitSup == CkIdle /\ RdIdle /\ CanIdle /\ LifeIdle /\ SupInit /\ MtIdle /\ RgIdle /\ GdIdle /\ EsIdle
NextSup == SupRefresh \/ SupLinkDrop \/ SupEngineStopLost \/ SupTick
SpecSup == InitSup /\ [][NextSup]_vars

\* the runtime-hours store under poll refreshes, push updates and the clock
InitMaint == CkIdle /\ RdIdle /\ CanIdle /\ LifeIdle /\ SupIdle /\ MtInit /\ RgIdle /\ GdIdle /\ EsIdle
NextMaint ==
    RtPollRefresh \/ RtPushUpdate \/ RtSaveTask \/ RtInitRecords \/ RtTick
SpecMaint == InitMaint /\ [][NextMaint]_vars

\* the bounds pass over every store and clock
InitBounds == CkIdle /\ RdIdle /\ CanIdle /\ LifeIdle /\ SupIdle /\ BdInit /\ RgIdle /\ GdIdle /\ EsIdle
NextBounds == BdApply
SpecBounds == InitBounds /\ [][NextBounds]_vars

\* service tracking over poll refreshes and the clock
InitService == CkIdle /\ RdIdle /\ CanIdle /\ LifeIdle /\ SupIdle /\ MtInit /\ RgIdle /\ GdIdle /\ EsIdle
NextService ==
    SvPollRefresh \/ RtInitRecords \/ SvTick \/ SvEstimate \/ SvMarkComplete
SpecService == InitService /\ [][NextService]_vars

\* get_hours_per_day over every stored history
InitRate == CkIdle /\ RdIdle /\ CanIdle /\ LifeIdle /\ SupIdle /\ RateInit /\ RgIdle /\ GdIdle /\ EsIdle
NextRate == RateCompute
SpecRate == InitRate /\ [][NextRate]_vars

\* the reconnect grace window over refreshes, stop presses and the clock
InitGrace ==
    CkIdle /\ RdIdle /\ CanIdle /\ LifeIdle /\ SupIdle /\ MtIdle /\ RgInit /\ GdIdle /\ EsIdle
NextGrace == RgRefreshOk \/ RgRefreshFail \/ RgPressStop \/ RgTick
SpecGrace == InitGrace /\ [][NextGrace]_vars

\* one get_devices call over every registry, argument and interruption
InitDevices ==
    CkIdle /\ RdIdle /\ CanIdle /\ LifeIdle /\ SupIdle /\ MtIdle /\ RgIdle /\ GdInit /\ EsIdle
NextDevices == GdRefresh \/ GdDirect \/ GdDisconnect
SpecDevices == InitDevices /\ [][NextDevices]_vars

\* a supervisor lifetime that starts from loaded storage
InitLoaded == CkIdle /\ RdIdle /\ CanIdle /\ LifeIdle /\ SupIdle /\ LdInit /\ RgIdle /\ GdIdle /\ EsIdle
NextLoaded == SvPollRefresh \/ RtInitRecords \/ SvTick
SpecLoaded == InitLoaded /\ [][NextLoaded]_vars

\* engine_stop calls on a Poll session, with link loss and disconnect()
InitStop ==
    CkIdle /\ RdIdle /\ CanIdle /\ LifeIdle /\ SupIdle /\ MtIdle /\ RgIdle /\ GdIdle /\ EsInit
NextStop ==
    EsCall \/ EsWriteOk \/ EsWriteFail \/ EsSlept \/ EsLinkDrop \/ EsRelease
SpecStop == InitStop /\ [][NextStop]_vars

\* the runtime-hours store under the Push stream: frames, save tasks, clock
InitPush == CkIdle /\ RdIdle /\ CanIdle /\ LifeIdle /\ SupIdle /\ MtInit /\ RgIdle /\ GdIdle /\ EsIdle
NextPush == RtCanFrame \/ RtSaveTask \/ RtInitRecords \/ RtTick
SpecPush == InitPush /\ [][NextPush]_vars

(***************************************************************************)
(* Properties                                                              *)
(***************************************************************************)

\* C1: a value returned by _read_diagnostic is the value of a response whose
\* checksum verifies and whose echoed register and position equal the
\* request; valid responses for another address consumed before it were
\* discarded, never returned.
C1_ResponseCorrelation ==
    rdOutcome = "value" =>
        /\ rdLast # <<>>
        /\ VerifyChecksum(DataOf(rdLast))
        /\ RespRegister(DataOf(rdLast)) = rdReq[1]
        /\ RespPosition(DataOf(rdLast)) = rdReq[2]
        /\ rdResult = DecodeValue(DataOf(rdLast))
        /\ rdResult = DecodeValue(DataOf(BuildResponse(rdReq[1], rdReq[2])))

\* two valid responses for other addresses were discarded before the match
C1_Witness == rdOutcome = "value" /\ rdSkipped = 2 /\ rdConsumed = 3

\* C2: the command is written at most 3 times per call and at most 3
\* responses are consumed per write; a call that ends on a live session
\* without an accepted response ends with APIReadError after exactly 3
\* writes, and nothing is raised for a checksum or address mismatch.
C2_RetryExhaustion ==
    /\ rdWrites <= 3
    /\ rdConsumed <= 3
    /\ rdOutcome = "read_error" => rdWrites = 3 /\ rdAttempt = 3
    /\ rdOutcome = "value_error" =>
          VerifyChecksum(DataOf(rdLast)) /\ Matches(DataOf(rdLast), rdReq)
    /\ (rdPc = "done" /\ rdLink /\ ~rdShut /\ rdOutcome \notin {"value", "value_error"})
          => rdOutcome = "read_error"
    /\ (rdPc \in {"loop", "write", "wait"} /\ rdLast # <<>>)
          => ~(VerifyChecksum(DataOf(rdLast)) /\ Matches(DataOf(rdLast), rdReq))

\* three writes, the last of them answered by three damaged responses
C2_Witness ==
    /\ rdOutcome = "read_error" /\ rdLink /\ ~rdShut
    /\ rdConsumed = 3 /\ rdSkipped = 0
    /\ ~VerifyChecksum(DataOf(rdLast))

\* C3: a built command verifies, and a built command with one byte among
\* bytes 1..6 changed to another value does not.
C3_ChecksumRoundTrip ==
    /\ ckIdx = -1 => VerifyChecksum(ckCmd)
    /\ ckIdx \in 1..6 => ~VerifyChecksum(ckCmd)

\* a byte that changes only the low nibble of the checksum was corrupted
C3_Witness ==
    /\ ckIdx = 6
    /\ B(ckCmd, 6) = 49
    /\ B(ckCmd, 7) = HexChar(XorBytes1to6(ckCmd) \div 16)

\* the CAN ID a state field is decoded from
FieldCanId(f) ==
    CASE f \in {"engine_mode", "eco_status"} -> CAN_ECU_STATUS
      [] f \in {"power_watts", "voltage", "current"} -> CAN_INV_INFO
      [] f = "runtime_hours" -> CAN_INV_INFO2
      [] f \in {"fuel_ml", "fuel_remaining_min", "fuel_level_discrete"}
            -> CAN_ECU_INFO_ETC
      [] f = "voltage_setting" -> CAN_OUTPUT_SETTING
      [] f = "ecu_errors" -> CAN_ECU_ERROR
      [] f = "inv_errors" -> CAN_INV_ERROR
      [] f = "bt_errors" -> CAN_BT_ERROR

\* the payload length that holds all the bytes of a field
FieldEnd(f) ==
    CASE f \in {"engine_mode", "voltage_setting"} -> 1
      [] f \in {"power_watts", "fuel_ml"} -> 2
      [] f = "eco_status" -> 3
      [] f \in {"voltage", "fuel_remaining_min"} -> 4
      [] f \in {"current", "runtime_hours", "fuel_level_discrete"} -> 6
      [] OTHER -> 0

\* C10: _handle_can_data never raises; a field whose bytes are not all inside
\* the payload keeps its previous value, and so does every field of another
\* CAN ID and every field when the notification is not decoded.
C10_CanDecodeFrame ==
    canData # <<0>> =>
        /\ ~CanRaised(canState)
        /\ ~Decoded(canData) => canState = canPrev
        /\ Decoded(canData) =>
              \A f \in CanFields :
                 (\/ FieldCanId(f) # CanIdOf(canData)
                  \/ FieldEnd(f) > Len(PayloadOf(canData)))
                     => canState[f] = canPrev[f]

\* an INV_INFO frame cut after the voltage: power and voltage change, the
\* current keeps its value
C10_Witness ==
    /\ Decoded(canData)
    /\ CanIdOf(canData) = CAN_INV_INFO
    /\ Len(PayloadOf(canData)) = 5
    /\ canPrev = CanWarmState
    /\ canState.power_watts # canPrev.power_watts
    /\ canState.voltage # canPrev.voltage
    /\ canState.current = canPrev.current

\* C4: at most one of the instances the supervisor has created holds a
\* connected transport handle.
C4_OneLiveSession ==
    Cardinality({i \in 1..Len(sInst) : sInst[i].client = "up"}) <= 1

\* C5: a connect() that finds the instance's handle connected performs no
\* transport operation and returns true.
C5_ConnectNoOp ==
    cReuse => (cOps = <<>> /\ (cpc = "done" => cret = "true"))

\* the steps of connect() after the notification subscriptions
AfterSubscription ==
    {"guest", "auth", "serial", "ctrl_read", "ctrl_write", "ctrl_verify",
     "register", "firmware", "start", "g_stop", "g_sleep", "g_serial",
     "g_restart"}

\* C6: a connect() that was suspended in a step after the subscriptions when
\* disconnect() set the shutdown flag does not complete as connected: it
\* does not return true.
C6_CooperativeCancel ==
    (cpc = "done" /\ cCancelAt \in AfterSubscription) => cret # "true"

\* C7: a disconnect() that is waiting for the lock, or is past it, has set
\* the shutdown flag; a disconnect() that found no handle performed no
\* transport operation and left the instance without handle and not
\* connected, also when it is the second disconnect().
C7_DisconnectFlagFirst ==
    /\ dpc # "idle" => shutting_down
    /\ (dpc = "lock" /\ lock = "connect") => shutting_down
    /\ (dpc = "done" /\ dFound = "no_handle") =>
          (dOps = <<>> /\ client = "none" /\ ~connected)

\* a first disconnect() raced a connect() that held the lock, and a second
\* disconnect() found no handle
C7_Witness ==
    /\ nDisconnect = 2 /\ dpc = "done" /\ dFound = "no_handle"
    /\ cCancelAt # "none"

\* the stop_notify calls of disconnect()
StopNotifyOps ==
    IF arch = "poll" THEN {"stop_notify_diag", "stop_notify_engine"}
    ELSE {"stop_notify_data", "stop_notify_can", "stop_notify_error"}

\* C8: a disconnect() that found a connected handle attempts to stop every
\* subscription, whichever of the attempts fail.
C8_TeardownRobust ==
    (dpc = "done" /\ dFound = "handle_up") =>
        StopNotifyOps \subseteq {dOps[i] : i \in 1..Len(dOps)}

\* C9: when the guard around the serial read of connect() has been left with
\* the link up, one stop-stream write and one start-stream write were made,
\* and if both succeeded and nothing else touched the stream it is active.
C9_StreamPauseResume ==
    (cg.state = "out" /\ cg.was_active /\ client = "up") =>
        /\ cg.stops = 1
        /\ cg.starts = 1
        /\ (cg.clean /\ nDisconnect = 0 /\ nEngineStop = 0) => stream_active

\* the fixed-offset fields of the decode table
OffsetFields == {f \in CanFields : FieldEnd(f) > 0}

\* the value the decode rule of a field gives for a payload that holds all
\* the bytes of the field
FieldDecoded(f, payload) ==
    CASE f = "engine_mode" -> payload[1]
      [] f = "eco_status" -> payload[3] \in {0, 2}
      [] f \in {"power_watts", "fuel_ml"} -> U16LE(payload, 0)
      [] f \in {"voltage", "fuel_remaining_min"} -> U16LE(payload, 2)
      [] f \in {"current", "runtime_hours"} -> U16LE(payload, 4)
      [] f = "fuel_level_discrete" -> payload[6]
      [] f = "voltage_setting" -> VoltageSetting(payload[1])

\* C11: after a decoded notification every fixed-offset field of its CAN ID
\* whose bytes all lie inside the payload holds the value decoded from them.
C11_CanDecodeComplete ==
    (canData # <<0>> /\ Decoded(canData)) =>
        \A f \in OffsetFields :
            (/\ FieldCanId(f) = CanIdOf(canData)
             /\ FieldEnd(f) <= Len(PayloadOf(canData)))
                => canState[f] = FieldDecoded(f, PayloadOf(canData))

\* C12: a decoded notification makes exactly one call of the registered
\* callback, with the state as it is after the update; a notification that
\* is not decoded, or no registered callback, makes no call.
C12_OwnerNotified ==
    canData # <<0>> =>
        canCalls = IF Decoded(canData) /\ canHasCb THEN <<canState>> ELSE <<>>

\* a decoded frame changed the state and the callback got the new state
C12_Witness ==
    /\ Decoded(canData) /\ canHasCb
    /\ canState # canPrev
    /\ canCalls = <<canState>>


\* C13: the stored runtime-hours value never decreases, and a candidate
\* whose increase over the stored value exceeds the hours elapsed since the
\* stored timestamp plus one leaves the stored value, its timestamp and the
\* history as they were.
Implausible(value, now, stored, stamp) ==
    stored # None /\ stamp # None /\ value - stored > (now - stamp) + 1
C13_RuntimeMonotone ==
    /\ [][rtStored' >= rtStored]_vars
    /\ [](rtCand # None /\ Implausible(rtCand, rtAt, rtPrev.stored, rtPrev.stamp)
            => /\ rtStored = rtPrev.stored
               /\ rtStamp = rtPrev.stamp
               /\ rtHistory = rtPrev.history)
C13_Witness ==
    /\ rtCand # None
    /\ Implausible(rtCand, rtAt, rtPrev.stored, rtPrev.stamp)
    /\ rtStored = rtPrev.stored
    /\ rtAt > rtPrev.stamp

Accepted(value, now, stored, stamp) ==
    \/ stored = None
    \/ value > stored /\ ~Implausible(value, now, stored, stamp)
C15_HistoryMaintenance ==
    /\ rtStored # None =>
         \A i \in DOMAIN rtHistory : rtHistory[i].hours >= rtStored - 24
    /\ rtCand # None =>
         IF Accepted(rtCand, rtAt, rtPrev.stored, rtPrev.stamp)
         THEN /\ rtSaved = 1
              /\ rtHistory # <<>>
              /\ rtHistory[Len(rtHistory)] = [hours |-> rtCand, ts |-> rtAt]
              /\ SubSeq(rtHistory, 1, Len(rtHistory) - 1) =
                   SelectSeq(rtPrev.history,
                             LAMBDA e : e.hours >= rtCand - 24)
         ELSE rtSaved = 0 /\ rtHistory = rtPrev.history
C15_Witness ==
    /\ rtCand # None
    /\ rtPrev.stored # None
    /\ Accepted(rtCand, rtAt, rtPrev.stored, rtPrev.stamp)
    /\ Len(rtHistory) < Len(rtPrev.history) + 1
    /\ rtSaved = 1


\* C16: with the well-formed samples in timestamp order, the rate is taken
\* from the sample right after the latest gap of seven days or more (the
\* first sample when there is none) to the last sample; there is no rate
\* with fewer than two well-formed samples, with a single sample after the
\* latest gap, or with no time elapsed; malformed entries do not count.
Samples == {i \in DOMAIN rtHistory : WellFormed(rtHistory[i])}
\* place of sample i in timestamp order, entries of equal time in list order
Rank(i) ==
    1 + Cardinality({j \in Samples :
                        \/ rtHistory[j].ts < rtHistory[i].ts
                        \/ rtHistory[j].ts = rtHistory[i].ts /\ j < i})
SampleAt(k) == rtHistory[CHOOSE i \in Samples : Rank(i) = k]
GapsAt ==
    {k \in 2..Cardinality(Samples) : SampleAt(k).ts - SampleAt(k - 1).ts >= GapHours}
StartAt == IF GapsAt = {} THEN 1 ELSE CHOOSE k \in GapsAt : \A m \in GapsAt : m <= k
C17_SnapshotHold ==
    /\ [](svCall.due /\ svCall.held # None => svCall.ret = svCall.held)
    /\ [][\A s \in Services :
            /\ (svCall' # svCall /\ svCall'.service_type = s /\ svCall'.due)
                 => svDue'[s] = svCall'.ret
            /\ (svDue[s] # None /\ svDue'[s] # svDue[s])
                 => /\ svDue'[s] = None
                    /\ \/ s \in svMarked' /\ svRecords'[s] # svRecords[s]
                       \/ svCall'.service_type = s /\ ~svCall'.due]_vars
C17_Witness ==
    /\ svCall.due
    /\ svCall.held # None
    /\ svCall.fresh # svCall.held
    /\ svCall.ret = svCall.held
    /\ rtNow > svCall.held

\* C18: once async_mark_service_complete has been called for the oil
\* change, is_service_due and get_estimated_service_date use the model's
\* standard oil-change interval.
C18_BreakInUntilFirstService ==
    (svCall.service_type = "oil_change" /\ svCall.marked
        /\ svCall.interval # NoInterval)
        => svCall.interval = ModelInterval("oil_change")


\* C19: the supervisor is in its startup grace period exactly while no
\* refresh has succeeded and less than the configured period has elapsed; a
\* successful refresh ends it, and once it has ended it never holds again.
InGrace ==
    InStartupGracePeriod(has_connected_once, startup_grace_period, sElapsed)
C19_GraceOneWay ==
    /\ [](InGrace <=> (~has_connected_once /\ sElapsed < startup_grace_period))
    /\ [](sResult = "data" => ~InGrace)
    /\ [][~InGrace => ~InGrace']_vars
C19_Witness ==
    /\ has_connected_once
    /\ sElapsed < startup_grace_period
    /\ sResult = "UpdateFailed"
    /\ api = 0

\* C20: for a supervisor that has never connected, a failed refresh that
\* runs after the startup grace period has elapsed leaves the listeners
\* notified of the expiry exactly once.
C20_GraceExpiryNotifiedOnce ==
    (~has_connected_once /\ sLate /\ sResult \in {"UpdateFailed", "BleakError"})
        => nGraceNotified = 1

\* C21: after a successful refresh, the first failed refresh starts the
\* reconnect grace window unless the disconnect was flagged intentional;
\* while the window is open a sensor that would show its offline default is
\* unavailable; a successful refresh leaves no window.
InWindow == InReconnectGracePeriod(gStart, gPeriod, gNow)
C22_ForcedReconnect ==
    /\ (reconnect_after_failures > 0 /\ sResult = "UpdateFailed")
         => ~(consecutive_failures >= reconnect_after_failures /\ api # 0)
    /\ sResult = "data" => consecutive_failures = 0
    /\ reconnect_after_failures = 0
         => \A i \in 1..Len(sInst) : ~sInst[i].shut

\* C23: a refresh whose connect() or get_devices() met a transport or
\* handshake failure ends as the failed-refresh signal UpdateFailed; no raw
\* transport error leaves async_update_data.
C23_ErrorConversion ==
    sResult \in {"none", "data", "stale", "UpdateFailed"}

\* the registers of each diagnostic category
CategoryPositions(c) ==
    CASE c = "warnings_faults" -> {"C10", "D10", "D11"}
      [] c = "runtime_hours" -> {"B00", "B01"}
      [] c = "current" -> {"B13", "B14"}
      [] c = "power" -> {"B17", "B18"}
      [] c = "eco_mode" -> {"B19"}
      [] c = "fuel" -> {"B40", "B41", "B42"}

\* C24: for every enabled-category set, get_devices writes no diagnostic
\* command for a register of a category that is not enabled and returns the
\* default of every reading of such a category (false for ECO mode, 0
\* otherwise); when WARNINGS_FAULTS is not enabled the raw warning and fault
\* values keep their previous values; the engine event, running, error and
\* output voltage readings are the cached engine drive status
C24_DisabledCategoriesSilent ==
    /\ [](gdRet # "none" =>
            \A c \in Categories \ gdEnabled : \A i \in 1..Len(gdWrites) :
                gdWrites[i] \notin CategoryPositions(c))
    /\ [](gdRet = "devices" =>
            \A i \in 1..Len(DEVICE_TYPES_POLL) :
                (/\ DEVICE_TYPE_TO_DIAGNOSTIC(DEVICE_TYPES_POLL[i]) # NoCategory
                 /\ DEVICE_TYPE_TO_DIAGNOSTIC(DEVICE_TYPES_POLL[i]) \notin gdEnabled)
                => IF DEVICE_TYPES_POLL[i] = "eco_mode"
                   THEN gdDevices[i] = FALSE ELSE gdDevices[i] = 0)
    /\ [][("warnings_faults" \notin gdEnabled')
            => (gdWarn' = gdWarn /\ gdFault' = gdFault)]_vars
    /\ [](gdRet = "devices" =>
            /\ gdDevices[5] = gdEngine.event
            /\ gdDevices[6] = gdEngine.running
            /\ gdDevices[7] = gdEngine.error
            /\ gdDevices[8] = gdEngine.voltage)

\* a call with only POWER enabled returned: two commands written, the raw
\* warning value kept, ECO mode false and the engine status freshly read
C24_Witness ==
    /\ gdRet = "devices" /\ gdEnabled = {"power"}
    /\ gdWrites = <<"B17", "B18">>
    /\ gdWarn \in PrevRaws /\ gdDevices[4] = FALSE /\ gdDevices[1] = 0
    /\ gdStatus = "read" /\ gdDevices[8] = 120

\* C25: in a refresh of the coordinator, the category of every registered,
\* enabled entity that depends on a diagnostic category (FUEL for the fuel
\* level and the fuel remaining time) is among the categories passed to
\* get_devices, and a returned reading of such an entity is the one read
\* with every category enabled
C25_EnabledCategoriesIncluded ==
    gdCaller = "coordinator" =>
        \A e \in gdEntries :
            (~e.disabled /\ EntityCategory(e.key) # NoCategory) =>
                /\ EntityCategory(e.key) \in gdEnabled
                /\ (gdRet = "devices" /\ EntityDevice(e.key) # "alerts") =>
                     \A i \in 1..Len(DEVICE_TYPES_POLL) :
                        DEVICE_TYPES_POLL[i] = EntityDevice(e.key) =>
                            gdDevices[i] =
                                GetValue(DEVICE_TYPES_POLL[i], Categories,
                                         gdFuel,
                                         [p \in DiagPositions |->
                                             DeviceByte(gdImage, p)],
                                         gdEngine).state

\* the two bytes of a big-endian register pair as a signed 16-bit integer
Signed16(image) == ((image[1] * 256 + image[2] + 32768) % 65536) - 32768

\* the value each bounded reading decodes from the generator's bytes, and
\* the bounds it is checked against (current in tenths of an ampere)
DecodedReading(i, image) ==
    CASE DEVICE_TYPES_POLL[i] = "runtime_hours" ->
            [value |-> Signed16(image), low |-> 0, high |-> 100000]
      [] DEVICE_TYPES_POLL[i] = "current" ->
            [value |-> Signed16(image), low |-> 0, high |-> 500]
      [] DEVICE_TYPES_POLL[i] = "power" ->
            [value |-> Signed16(image) * 10, low |-> 0, high |-> 10000]
      [] DEVICE_TYPES_POLL[i] = "fuel_level" ->
            [value |-> image[2], low |-> 0, high |-> 100]
      [] DEVICE_TYPES_POLL[i] = "fuel_remaining_time" ->
            [value |-> image[1] * 256 + image[2], low |-> 0, high |-> 1440]

\* the reading is one of the five bounded ones and was read from the device
ReadFromDevice(i) ==
    /\ DEVICE_TYPE_TO_DIAGNOSTIC(DEVICE_TYPES_POLL[i]) \in gdEnabled \ {"eco_mode"}
    /\ DEVICE_TYPE_TO_DIAGNOSTIC(DEVICE_TYPES_POLL[i]) = "fuel" => gdFuel

\* C26: a runtime hours, current, power, fuel level or fuel remaining time
\* reading that get_devices read from the device is the decoded value when
\* that value lies inside its bounds and None when it lies outside (negative
\* values of the signed registers included), never a clamped value
C26_BoundsYieldUnknown ==
    (gdRet = "devices" /\ ~gdShut) =>
        \A i \in 1..Len(DEVICE_TYPES_POLL) :
            ReadFromDevice(i) =>
                LET d == DecodedReading(i, gdImage) IN
                IF d.low <= d.value /\ d.value <= d.high
                THEN gdDevices[i] = d.value
                ELSE gdDevices[i] = None

\* raw 1001 everywhere: runtime hours and fuel remaining time are returned
\* unchanged, current, power and fuel level are None
C26_Witness ==
    /\ gdRet = "devices" /\ ~gdShut /\ gdFuel /\ gdEnabled = Categories
    /\ gdImage = <<3, 233>>
    /\ gdDevices[1] = 1001 /\ gdDevices[10] = 1001
    /\ gdDevices[2] = None /\ gdDevices[3] = None /\ gdDevices[9] = None

\* C28: once the shutdown flag is set, _read_diagnostic writes no further
\* diagnostic command and a read in progress ends with the no-op result or
\* a failure, never with a response value; get_devices called with the flag
\* set raises the shutting-down failure without writing a command or
\* reading the engine drive status
C28_ReadCancellation ==
    /\ [][rdShut => rdWrites' <= rdWrites]_vars
    /\ [][rdShut => ~(rdPc # "done" /\ rdPc' = "done" /\ rdOutcome' = "value")]_vars
    /\ [][(gdShut /\ gdRet = "none" /\ gdRet' # "none") =>
            /\ gdRet' = "APIConnectionError"
            /\ gdWrites' = <<>> /\ gdStatus' = "not read"]_vars

\* C30: when the authentication write of connect() times out, in either
\* client, the call has ended with a connection error, the authentication
\* write is the last transport operation it performed (no serial read,
\* configuration or stream start follows), and connected is not set to true
\* for that attempt
C30_AuthTimeoutFatal ==
    /\ [](cAuth = "timeout" =>
            /\ cpc = "done" /\ cret = "APIConnectionError"
            /\ cOps # <<>> /\ cOps[Len(cOps)] = "write_auth")
    /\ [][cAuth' = "timeout" => (connected' => connected)]_vars

\* a PollAPI connect() whose authentication write timed out
C30_Witness ==
    /\ arch = "poll" /\ cAuth = "timeout" /\ cpc = "done"
    /\ cret = "APIConnectionError" /\ ~connected

\* where PollAPI.connect() is suspended in a best-effort step
BestEffortSteps ==
    {"pair", "guest", "ctrl_read", "ctrl_write", "ctrl_verify", "register",
     "firmware"}

\* C31: in PollAPI.connect() no outcome of pairing, of the guest-validity
\* read, of the control-sequence read, write or read back, of the serial
\* registration write or of the firmware read ends the call with an
\* exception (it ends there only with false, on shutdown); the firmware step
\* ends it with true and connected set whatever its outcome; and the
\* control-sequence write follows only a control-sequence read of a model
\* with an expected sequence that found a different profile ID
C31_BestEffortSteps ==
    /\ [][(arch = "poll" /\ cpc \in BestEffortSteps /\ cpc' = "done") =>
            \/ cret' = "true"
            \/ cret' = "false" /\ shutting_down]_vars
    /\ [][(arch = "poll" /\ cpc = "firmware" /\ cpc' # "firmware") =>
            (cpc' = "done" /\ cret' = "true" /\ connected')]_vars
    /\ [](\A i \in 1..Len(cOps) : cOps[i] = "write_control_sequence" =>
            /\ serialKind = "known" /\ cProfile = "mismatch"
            /\ i > 1 /\ cOps[i - 1] = "read_control_sequence")

\* connect() returned true with connected set although the link was already
\* down when the serial registration and the firmware read were attempted,
\* after a profile mismatch whose corrective write was attempted
C31_Witness ==
    /\ arch = "poll" /\ cpc = "done" /\ cret = "true" /\ connected
    /\ client = "down" /\ cProfile = "mismatch"
    /\ \E i \in 1..Len(cOps) : cOps[i] = "write_control_sequence"
    /\ cOps[Len(cOps)] = "read_firmware"

\* the last reading handed to _async_save_runtime_hours passed validation
HandledValid ==
    /\ rtCand # None
    /\ ValidateRuntimeHours(rtCand, rtAt, rtPrev.stored, rtPrev.stamp)

\* initialization never changes a record
\* that exists, and creates records at the reading's hours
C32_InitializationFrame ==
    [][\A s \in Services :
          /\ svRecords[s] # NoRecord => svRecords'[s] = svRecords[s]
          /\ (svRecords[s] = NoRecord /\ svRecords'[s] # NoRecord) =>
                /\ rtInit # <<>>
                /\ svRecords'[s].hours = InitHours(s, rtInit[1].hours)
                /\ svRecords'[s].date = rtInit[1].date]_vars

\* C32: once a supervisor has handled a valid runtime-hours reading and no
\* initialization is pending, every service of the model has a record (also
\* when runtime hours were loaded from storage and the reading is no new
\* maximum); a record that existed is never changed by initialization; a
\* record that initialization creates holds the reading's hours (0 for the
\* oil change below 20 hours)
C32_LazyServiceRecords ==
    /\ []((HandledValid /\ rtInit = <<>>) =>
             \A s \in Services : svRecords[s] # NoRecord)
    /\ C32_InitializationFrame

\* hours were loaded from storage, a valid reading has been handled, and a
\* service of the model still has no record
C32_Witness ==
    /\ HandledValid /\ rtInit = <<>>
    /\ rtPrev.stored # None
    /\ \E s \in Services : svRecords[s] = NoRecord

\* a step of async_mark_service_complete(s): s is marked for the first time,
\* or is marked and its record changes (initialization never changes the
\* record of a marked service)
MarkStep(s) ==
    /\ s \in svMarked'
    /\ s \notin svMarked \/ svRecords'[s] # svRecords[s]

\* C33: async_mark_service_complete(s) sets the record of s to the stored
\* runtime hours (0 when none is stored) and the current date, removes the
\* snapshotted due date of s, saves storage once, leaves the record and the
\* snapshot of every other service unchanged, and right after it
\* is_service_due(s) is false
C33_MarkServiceComplete ==
    [][\A s \in Services : MarkStep(s) =>
          /\ svRecords'[s] =
               [hours |-> IF rtStored = None THEN 0 ELSE rtStored,
                date |-> rtNow]
          /\ svDue'[s] = None
          /\ rtSaved' = 1
          /\ \A t \in Services \ {s} :
                svRecords'[t] = svRecords[t] /\ svDue'[t] = svDue[t]
          /\ ~IsServiceDue(s, svRecords'[s], rtStored', rtNow')]_vars

\* a service was found due with a snapshot held, and was then marked
\* complete: its record is the current hours and date, its snapshot is gone
\* and it is no longer due
C33_Witness ==
    \E s \in Services :
        /\ s \in svMarked
        /\ svCall.service_type = s /\ svCall.due /\ svCall.ret # None
        /\ svRecords[s] = [hours |-> CurrentHours(rtStored), date |-> rtNow]
        /\ rtStored # None
        /\ svDue[s] = None
        /\ rtSaved = 1
        /\ ~IsServiceDue(s, svRecords[s], rtStored, rtNow)

\* _read_diagnostic has written its command and awaits the write or a response
ReadInProgress == rdPc \in {"write", "wait"}

\* C34: disconnect() has not gone past setting the shutdown flag (it has
\* stopped no notifications and has not released the client) while a
\* diagnostic read of the session is still in progress
C34_DisconnectWaits == rdDisc # "none" => ~ReadInProgress

\* the same for the release of the client alone
C34_ReleaseWaits == rdDisc = "released" => ~ReadInProgress

\* C35: PollAPI.engine_stop(max_attempts) returns false without a write
\* when it finds no connected client; otherwise it returns true, makes at
\* most max_attempts successful writes and never more write calls than
\* max_attempts, ends at the first write that times out or raises and then
\* has set connected to false
C35_EngineStopBounded ==
    /\ esAttempts <= esWrites /\ esWrites <= esMax
    /\ esAttempts <= esMax
    /\ esWrites <= esAttempts + 1
    /\ (esEntry # "up" /\ esPc = "done") => (esRet = "false" /\ esWrites = 0)
    /\ (esEntry = "up" /\ esPc = "done") => esRet = "true"
    /\ esRet = "false" => esEntry # "up"
    /\ esFailed # "none" =>
          /\ esPc = "done" /\ esRet = "true" /\ ~esConnected
          /\ esWrites = esAttempts + 1
    /\ (esPc = "done" /\ esEntry = "up" /\ esFailed = "none") =>
          (esAttempts = esMax /\ esWrites = esMax)

\* the second write of a call that allowed three failed: the call returned
\* true after one successful write and connected is false
C35_Witness ==
    /\ esPc = "done" /\ esRet = "true" /\ esEntry = "up"
    /\ esMax = 3 /\ esAttempts = 1 /\ esWrites = 2
    /\ esFailed = "timeout" /\ ~esConnected /\ esClient = "up"

\* a step of async_update_data whose get_devices call ended with APIReadError
\* (no other action changes the failure count)
ReadErrorRefresh ==
    /\ sDevices' = "APIReadError"
    /\ consecutive_failures' # consecutive_failures

\* C36: a refresh whose get_devices call fails with an exhausted read
\* increments the consecutive-failure count, keeps the protocol-client
\* instance (no teardown, coordinator.api still names it) and
\* has_connected_once and the last snapshot as they were; it returns the
\* last snapshot when the instance is still connected and an earlier refresh
\* succeeded, and fails with UpdateFailed otherwise
C36_StaleOnReadError ==
    [][ReadErrorRefresh =>
          /\ consecutive_failures' = consecutive_failures + 1
          /\ has_connected_once' = has_connected_once
          /\ last_ok' = last_ok
          /\ api' # 0 /\ ~sInst'[api'].shut
          /\ ~NeedsNewInstance(api, sInst) =>
                 /\ api' = api /\ Len(sInst') = Len(sInst)
                 /\ sInst'[api].client \in {"up", "down"}
          /\ sResult' = IF last_ok /\ sInst'[api'].connected THEN "stale"
                        ELSE "UpdateFailed"]_vars

\* the last snapshot was returned on a read error with the count at or past
\* a configured reconnect threshold, and the instance is still in place
C36_Witness ==
    /\ sDevices = "APIReadError" /\ sResult = "stale"
    /\ reconnect_after_failures > 0
    /\ consecutive_failures >= reconnect_after_failures
    /\ api # 0 /\ sInst[api].connected /\ has_connected_once

\* C37: a get_devices call during which the shutdown flag was set ends with
\* the shutting-down failure and returns no device list, so no reading
\* assembled from the zero placeholder of _read_diagnostic is returned
C37_NoFabricatedReadings ==
    (gdShut /\ gdRet # "none") =>
        (gdRet = "APIConnectionError" /\ gdDevices = <<>>)

\* only the last reading, fuel remaining time on a fuel-sensor model, is
\* assembled from the placeholder: the others are what the device sent
C37_EarlierReadingsNotFabricated ==
    (gdShut /\ gdRet = "devices") =>
        /\ gdFuel /\ "fuel" \in gdEnabled
        /\ gdDevices[Len(DEVICE_TYPES_POLL)] \in
              {0, CheckBounds(UnpackUnsigned(DeviceByte(gdImage, "B41"), 0),
                              BOUNDS_FUEL_REMAINING)}
        /\ \A i \in 1..(Len(DEVICE_TYPES_POLL) - 1) :
              ReadFromDevice(i) =>
                  LET d == DecodedReading(i, gdImage) IN
                  IF d.low <= d.value /\ d.value <= d.high
                  THEN gdDevices[i] = d.value
                  ELSE gdDevices[i] = None

\* C38: starting with no stored runtime hours, nothing is stored and no
\* service record is initialized before an INV_INFO2 frame has been decoded
\* (the placeholder 0 of PushAPI's state is not taken as the baseline); and
\* once every scheduled save has run, the stored value is at least the first
\* decoded value (that value was accepted, not rejected as a jump from 0)
C38_PlaceholderNotBaseline ==
    /\ ~rtPush.decoded =>
          /\ rtStored = None
          /\ \A s \in Services : svRecords[s] = NoRecord
    /\ (rtPush.decoded /\ rtTasks = <<>>) =>
          (rtStored # None /\ rtStored >= rtPush.first)

\* the first decoded value was 28 hours and its save has run, yet the stored
\* value is the placeholder 0
C38_Rejected ==
    /\ rtPush.decoded /\ rtPush.first = 28 /\ rtTasks = <<>>
    /\ rtStored = 0 /\ rtCand = 28

\* C39: on a protocol-client instance of either architecture the shutdown
\* flag is never cleared once disconnect() has set it, and a connect()
\* called with the flag set returns false at once, without a transport
\* operation and without touching the client, the lock or connected
C39_SingleUse ==
    /\ [][shutting_down => shutting_down']_vars
    /\ [][(shutting_down /\ nConnect' # nConnect) =>
            /\ cpc' = "done" /\ cret' = "false" /\ cOps' = <<>>
            /\ client' = client /\ lock' = lock
            /\ connected' = connected]_vars

\* disconnect() released a connected instance and returned, and a connect()
\* called after it returned false without a transport operation
C39_Witness ==
    /\ shutting_down /\ dpc = "done" /\ nDisconnect = 1 /\ dOps # <<>>
    /\ nConnect = 2 /\ cpc = "done" /\ cret = "false" /\ cOps = <<>>
    /\ client = "none" /\ ~connected

\* C39, get_devices: a PollAPI.get_devices call made with the flag set raises
\* the shutting-down failure without a diagnostic command, and the flag
\* stays set
C39_GetDevicesRaises ==
    /\ [][gdShut => gdShut']_vars
    /\ [][(gdShut /\ gdRet = "none" /\ gdRet' # "none") =>
            /\ gdRet' = "APIConnectionError"
            /\ gdWrites' = <<>> /\ gdDevices' = <<>>]_vars

\* C39, the supervisor: coordinator.api never names an instance that was
\* disconnected, and such an instance is never used again (connect() is
\* called only on the instance the same refresh has just created, which the
\* forced reconnect of that refresh may tear down again)
C39_SupervisorNeverReuses ==
    /\ [](api # 0 => ~sInst[api].shut)
    /\ [][/\ Len(sInst') >= Len(sInst)
          /\ \A i \in 1..Len(sInst) : sInst[i].shut => sInst'[i] = sInst[i]
          /\ \A i \in (Len(sInst) + 1)..Len(sInst') :
                \/ ~sInst'[i].shut /\ api' = i
                \/ sInst'[i].shut /\ api' = 0]_vars

\* C40: session-state consistency of both protocol clients, at every
\* suspension point: connected implies that a transport handle is present;
\* PushAPI's stream_active implies that a transport handle is present;
\* connected is false when a connect() call ends without success, when the
\* transport's disconnect callback has run, and when disconnect() returns
C40_SessionConsistent ==
    /\ [](connected => client # "none")
    /\ []((arch = "push" /\ stream_active) => client # "none")
    /\ [][(cpc # "done" /\ cpc' = "done" /\ cret' # "true") =>
            ~connected']_vars
    /\ [][(client = "up" /\ client' = "down") => ~connected']_vars
    /\ [][(dpc # "done" /\ dpc' = "done") => ~connected']_vars
====
